---- MODULE Spec2Model ----
(***************************************************************************)
(* A model of the prompt-engineering notebooks of tqtensor/promptimize.    *)
(*                                                                         *)
(* Texts are sequences of tokens.  A token is a TLA+ string: a single      *)
(* character where the code looks at characters (the regular expression of *)
(* extract_number, lower().startswith("yes"), the date parser), and a      *)
(* whole literal where the code only concatenates.  Rendering a template   *)
(* is concatenation of its literal parts and of the substituted values.    *)
(*                                                                         *)
(* The remote model is the environment: every call returns a response      *)
(* drawn from a small set, or raises.                                      *)
(***************************************************************************)
EXTENDS Integers, Sequences, FiniteSets, TLC

VARIABLES
    pc,               \* position of the running function or cell
    calls,            \* remote calls issued so far, in order, with their outcome
    output,           \* lines printed so far
    result,           \* value returned by the function (meaningful once pc = "returned")
    topic,            \* robust_number_generation: argument; notebook 05: global
    max_attempts,     \* robust_number_generation: argument
    attempt,          \* robust_number_generation: loop variable (iterations completed)
    response,         \* robust_number_generation: local
    number,           \* robust_number_generation: local
    validation,       \* robust_number_generation: local
    text,             \* extract_number: argument
    message,          \* structured output: choices[0].message of the response
    function_arguments, \* structured output: json.loads of the first tool call
    person,           \* structured output: the Person built from the arguments
    templates,        \* notebook 05: the prompt templates defined by the cells
    step,             \* notebook 05: the next remote call of the two cells
    detailed_response, \* notebook 05: global
    concise_response, \* notebook 05: global
    initial_question, \* dynamic_qa: argument
    num_follow_ups,   \* dynamic_qa: argument
    iteration,        \* dynamic_qa: loop variable (iterations completed)
    current_question, \* dynamic_qa: local
    qa_chain,         \* dynamic_qa: local
    running,          \* the function or cell whose body is executing
    genre,            \* story_chain: argument
    story,            \* story_chain: local
    theme,            \* analyze_text: local
    tone,             \* analyze_text: local
    steps,            \* iterative_analysis: argument
    step_index,       \* iterative_analysis: steps consumed by the for loop
    store,            \* notebook 05: global dict of session id to history
    session_id,       \* get_by_session_id: argument of the latest lookup
    looked_up,        \* session ids passed to get_by_session_id so far
    turn,             \* notebook 05: questions of the running loop already answered
    executions,       \* notebook 05: cell executions started so far
    conversation_defined, \* notebook 05: the cell defining conversation has run
    uname_s,          \* create_venv.sh: what uname -s prints on the host
    uname_m,          \* create_venv.sh: what uname -m prints on the host
    PYTHON_VERSION,   \* create_venv.sh: the line read from the user
    VERSION,          \* create_venv.sh: the full version the case statement selects
    installed,        \* create_venv.sh: the /usr/local/python<VERSION> directories and what they hold
    pyproject,        \* create_venv.sh: pyproject.toml is a file of the working directory
    tarball,          \* create_venv.sh: what python<VERSION>.tar.gz holds, if it exists
    extracted,        \* create_venv.sh: what ./python holds, if it exists
    venv,             \* create_venv.sh: .venv has been created
    commands,         \* create_venv.sh: commands the running script has executed
    runs,             \* create_venv.sh: runs of the script started so far
    exit_status       \* create_venv.sh: exit status of the latest run

commonVars == <<pc, calls, output, result>>
retryVars  == <<topic, max_attempts, attempt, response, number, validation>>
textVars   == <<text>>
personVars == <<message, function_arguments, person>>
renderVars == <<templates, step, detailed_response, concise_response>>
qaVars     == <<initial_question, num_follow_ups, iteration, current_question, qa_chain>>
frameVars  == <<running>>
storyVars  == <<genre, story>>
analyzeVars == <<theme, tone>>
iterVars   == <<steps, step_index>>
chainVars  == <<frameVars, storyVars, analyzeVars, iterVars>>
sessionVars == <<store, session_id, looked_up, turn, executions, conversation_defined>>
venvVars   == <<uname_s, uname_m, PYTHON_VERSION, VERSION, installed, pyproject, tarball,
               extracted, venv, commands, runs, exit_status>>
vars       == <<commonVars, retryVars, textVars, personVars, renderVars, qaVars, chainVars,
               sessionVars, venvVars>>

\* what the actions of one function leave alone
notSessionVars == <<retryVars, textVars, personVars, renderVars, qaVars,
                    storyVars, analyzeVars, iterVars, venvVars>>
notVenvVars   == <<retryVars, textVars, personVars, renderVars, qaVars, chainVars,
                   sessionVars>>
notRetryVars  == <<textVars, personVars, renderVars, qaVars, chainVars, sessionVars, venvVars>>
notTextVars   == <<retryVars, personVars, renderVars, qaVars, chainVars, sessionVars, venvVars>>
notPersonVars == <<retryVars, textVars, renderVars, qaVars, chainVars, sessionVars, venvVars>>
notRenderVars == <<retryVars, textVars, personVars, qaVars, chainVars, sessionVars, venvVars>>
notQaVars     == <<retryVars, textVars, personVars, renderVars, chainVars, sessionVars, venvVars>>
notStoryVars  == <<retryVars, textVars, personVars, renderVars, qaVars,
                   frameVars, analyzeVars, iterVars, sessionVars, venvVars>>
notAnalyzeVars == <<retryVars, textVars, personVars, renderVars, qaVars,
                    frameVars, storyVars, iterVars, sessionVars, venvVars>>
notIterVars   == <<retryVars, textVars, personVars, renderVars, qaVars,
                   frameVars, storyVars, analyzeVars, sessionVars, venvVars>>

----------------------------------------------------------------------------
(* Bounds of the model *)

MaxAttemptsBound == 3
MaxLen == 6
MaxFollowUps == 3
MaxSteps == 3
MaxMessages == 3
MaxExecutions == 2
MaxRuns == 2

----------------------------------------------------------------------------
(* Characters and texts *)

Digit == {"0", "1", "2", "3", "4", "5", "6", "7", "8", "9"}

Lowercase == {"a", "b", "c", "d", "e", "f", "g", "h", "i", "j", "k", "l", "m",
              "n", "o", "p", "q", "r", "s", "t", "u", "v", "w", "x", "y", "z"}

Uppercase == {"A", "B", "C", "D", "E", "F", "G", "H", "I", "J", "K", "L", "M",
              "N", "O", "P", "Q", "R", "S", "T", "U", "V", "W", "X", "Y", "Z"}

\* \w of Python's re on str: alphanumerics and the underscore
WordChar == Digit \cup Lowercase \cup Uppercase \cup {"_"}

\* Python None / an optional value: <<>> is None, <<v>> is the value v
None == <<>>
Some(v) == <<v>>

UpperSeq == << "A", "B", "C", "D", "E", "F", "G", "H", "I", "J", "K", "L", "M",
               "N", "O", "P", "Q", "R", "S", "T", "U", "V", "W", "X", "Y", "Z" >>

LowerSeq == << "a", "b", "c", "d", "e", "f", "g", "h", "i", "j", "k", "l", "m",
               "n", "o", "p", "q", "r", "s", "t", "u", "v", "w", "x", "y", "z" >>

\* str.lower(), character by character
LowerChar(c) ==
    IF c \in Uppercase
    THEN LowerSeq[CHOOSE i \in 1..Len(UpperSeq) : UpperSeq[i] = c]
    ELSE c

\* the text compared as it is, upper case and all
lowerKeepsCase(s) == s

lower(s) == [i \in 1..Len(s) |-> LowerChar(s[i])]

\* a substring test where a prefix test is meant
ContainsText(s, prefix) ==
    \E k \in 0..(Len(s) - Len(prefix)) : SubSeq(s, k + 1, k + Len(prefix)) = prefix

startswith(s, prefix) ==
    /\ Len(s) >= Len(prefix)
    /\ SubSeq(s, 1, Len(prefix)) = prefix

----------------------------------------------------------------------------
(* extract_number: re.search(r"\b\d{4}\b", text) *)

NumberLen == 4

IsWordAt(s, k) == k >= 1 /\ k <= Len(s) /\ s[k] \in WordChar

\* \b between s[k] and s[k+1] (k = 0: start of the text, k = Len(s): end)
WordBoundary(s, k) == IsWordAt(s, k) # IsWordAt(s, k + 1)

\* the pattern \b\d{4}\b matches at position p
MatchesAt(s, p) ==
    /\ p >= 1
    /\ p + NumberLen - 1 <= Len(s)
    /\ WordBoundary(s, p - 1)
    /\ \A i \in p..(p + NumberLen - 1) : s[i] \in Digit
    /\ WordBoundary(s, p + NumberLen - 1)

MatchPositions(s) == {p \in 1..Len(s) : MatchesAt(s, p)}

Min(S) == CHOOSE m \in S : \A x \in S : m <= x

\* the last match where the first is meant
SearchLast(s) == CHOOSE m \in MatchPositions(s) : \A x \in MatchPositions(s) : m >= x

\* re.search scans from the left and returns the first match
SearchFirst(s) == Min(MatchPositions(s))

extract_number(s) ==
    IF MatchPositions(s) = {}
    THEN None
    ELSE Some(SubSeq(s, SearchFirst(s), SearchFirst(s) + NumberLen - 1))

----------------------------------------------------------------------------
(* Prompt templates: a sequence of literal parts and placeholders *)

Lit(t) == [lit |-> t]
Var(v) == [var |-> v]

RECURSIVE Format(_, _)
\* PromptTemplate.format / the rendering a chain does before the call
Format(template, inputs) ==
    IF template = <<>>
    THEN <<>>
    ELSE LET seg == Head(template)
         IN  (IF "var" \in DOMAIN seg THEN inputs[seg.var] ELSE <<seg.lit>>)
             \o Format(Tail(template), inputs)

generate_prompt ==
    << Lit("Generate a 4-digit number related to the topic: "),
       Var("topic"),
       Lit(". Respond with ONLY the number, no additional text.") >>

validate_prompt ==
    << Lit("Is the number "),
       Var("number"),
       Lit(" truly related to the topic '"),
       Var("topic"),
       Lit("'? Answer with 'Yes' or 'No' and explain why.") >>

----------------------------------------------------------------------------
(* The remote model *)

Topics == { <<"Dien Bien Phu">>, <<"the moon landing">> }

\* texts the generation call may return
GenerationResponses ==
    { <<"1", "9", "5", "4">>,
      <<"T", "h", "e", " ", "a", "n", "s", "w", "e", "r", " ", "i", "s", " ",
        "1", "9", "5", "4", ".">>,
      <<"n", "o", " ", "d", "i", "g", "i", "t", "s", " ", "h", "e", "r", "e">>,
      <<"x", "1", "9", "5", "4", " ", "2", "0", "2", "5">> }

\* texts the validation call may return
ValidationResponses ==
    { <<"Y", "e", "s", ",", " ", "i", "t", " ", "i", "s", ".">>,
      <<"Y", "E", "S">>,
      <<"N", "o", ".">>,
      <<" ", "Y", "e", "s">> }

\* messages of the exceptions a remote call may raise
RemoteErrors == { <<"Connection error.">> }

Sentinel == <<"Failed to generate a valid number after multiple attempts.">>

Call(prompt, request, n) ==
    [prompt |-> prompt, request |-> request, attempt |-> n,
     status |-> "pending", content |-> <<>>]

\* the outstanding call (always the last one issued) gets its outcome
Complete(log, status, content) ==
    [log EXCEPT ![Len(log)].status = status, ![Len(log)].content = content]

\* the 0-based loop variable printed as it is
FailedLineZeroBased(n, msg) == <<"Attempt ", ToString(n), " failed: ">> \o msg

\* print(f"Attempt {attempt + 1} failed: {str(e)}")
FailedLine(n, msg) == <<"Attempt ", ToString(n + 1), " failed: ">> \o msg

\* print(f"Attempt {attempt + 1}: Number {number} was not validated. Reason: {validation}")
NotValidatedLine(n, num, why) ==
    <<"Attempt ", ToString(n + 1), ": Number ">> \o num
        \o <<" was not validated. Reason: ">> \o why

\* ValueError(f"Failed to extract a 4-digit number from the response: {response}")
ExtractErrorMessage(r) ==
    <<"Failed to extract a 4-digit number from the response: ">> \o r

----------------------------------------------------------------------------
(* robust_number_generation(topic, max_attempts=3) *)

DefaultMaxAttempts == 3

RetryInit ==
    /\ topic \in Topics
    /\ max_attempts \in 0..MaxAttemptsBound
    /\ attempt = 0
    /\ response = <<>>
    /\ number = None
    /\ validation = <<>>

\* the except clause: print the line, go on with the next iteration
ExceptHandler(msg) ==
    /\ output' = Append(output, FailedLine(attempt, msg))
    /\ attempt' = attempt + 1
    /\ pc' = "loop"
    /\ UNCHANGED result

\* a retry that tells the model what went wrong before
GenerateWithHint ==
    /\ pc = "loop"
    /\ attempt < max_attempts
    /\ calls' = Append(calls, Call("generate",
                                   Format(generate_prompt, [topic |-> topic])
                                       \o (IF output = <<>> THEN <<>> ELSE output[Len(output)]),
                                   attempt))
    /\ pc' = "generate"
    /\ UNCHANGED <<output, result, retryVars, notRetryVars>>

\* range(max_attempts + 1): one iteration too many
GenerateOffByOne ==
    /\ pc = "loop"
    /\ attempt <= max_attempts
    /\ calls' = Append(calls, Call("generate", Format(generate_prompt, [topic |-> topic]), attempt))
    /\ pc' = "generate"
    /\ UNCHANGED <<output, result, retryVars, notRetryVars>>

\* loop head, another iteration: the generation call is issued
Generate ==
    /\ pc = "loop"
    /\ attempt < max_attempts
    /\ calls' = Append(calls, Call("generate", Format(generate_prompt, [topic |-> topic]), attempt))
    /\ pc' = "generate"
    /\ UNCHANGED <<output, result, retryVars, notRetryVars>>

\* the validation call is issued whether or not a number was extracted
GenerateReturnsNoCheck(r) ==
    /\ pc = "generate"
    /\ response' = r
    /\ number' = IF extract_number(r) = None THEN Some(r) ELSE extract_number(r)
    /\ calls' = Append(Complete(calls, "ok", r),
                       Call("validate",
                            Format(validate_prompt, [number |-> number'[1], topic |-> topic]),
                            attempt))
    /\ pc' = "validate"
    /\ UNCHANGED <<output, result, attempt>>
    /\ UNCHANGED <<topic, max_attempts, validation, notRetryVars>>

\* the generation call returns r: extract the number, then either raise
\* ValueError (caught) or issue the validation call
GenerateReturns(r) ==
    /\ pc = "generate"
    /\ response' = r
    /\ number' = extract_number(r)
    /\ IF number' = None
       THEN /\ calls' = Complete(calls, "ok", r)
            /\ ExceptHandler(ExtractErrorMessage(r))
       ELSE /\ calls' = Append(Complete(calls, "ok", r),
                               Call("validate",
                                    Format(validate_prompt,
                                           [number |-> number'[1], topic |-> topic]),
                                    attempt))
            /\ pc' = "validate"
            /\ UNCHANGED <<output, result, attempt>>
    /\ UNCHANGED <<topic, max_attempts, validation, notRetryVars>>

\* the call outside the try block: the exception reaches the caller
GenerateRaisesUncaught(e) ==
    /\ pc = "generate"
    /\ calls' = Complete(calls, "raised", e)
    /\ pc' = "raised"
    /\ UNCHANGED <<output, result, retryVars, notRetryVars>>

\* the generation call raises
GenerateRaises(e) ==
    /\ pc = "generate"
    /\ calls' = Complete(calls, "raised", e)
    /\ ExceptHandler(e)
    /\ UNCHANGED <<topic, max_attempts, response, number, validation, notRetryVars>>

\* an accepted number is kept, and the loop runs on to its end
ValidateReturnsKeepGoing(v) ==
    /\ pc = "validate"
    /\ calls' = Complete(calls, "ok", v)
    /\ validation' = v
    /\ IF startswith(lower(v), <<"y", "e", "s">>)
       THEN /\ result' = number[1]
            /\ UNCHANGED output
       ELSE /\ output' = Append(output, NotValidatedLine(attempt, number[1], v))
            /\ UNCHANGED result
    /\ attempt' = attempt + 1
    /\ pc' = "loop"
    /\ UNCHANGED <<topic, max_attempts, response, number, notRetryVars>>

\* a rejected number ends the function at once
ValidateReturnsGiveUp(v) ==
    /\ pc = "validate"
    /\ calls' = Complete(calls, "ok", v)
    /\ validation' = v
    /\ result' = IF startswith(lower(v), <<"y", "e", "s">>) THEN number[1] ELSE Sentinel
    /\ pc' = "returned"
    /\ UNCHANGED <<output, attempt>>
    /\ UNCHANGED <<topic, max_attempts, response, number, notRetryVars>>

\* the validation call returns v
ValidateReturns(v) ==
    /\ pc = "validate"
    /\ calls' = Complete(calls, "ok", v)
    /\ validation' = v
    /\ IF startswith(lower(v), <<"y", "e", "s">>)
       THEN /\ result' = number[1]
            /\ pc' = "returned"
            /\ UNCHANGED <<output, attempt>>
       ELSE /\ output' = Append(output, NotValidatedLine(attempt, number[1], v))
            /\ attempt' = attempt + 1
            /\ pc' = "loop"
            /\ UNCHANGED result
    /\ UNCHANGED <<topic, max_attempts, response, number, notRetryVars>>

\* the validation call raises
ValidateRaises(e) ==
    /\ pc = "validate"
    /\ calls' = Complete(calls, "raised", e)
    /\ ExceptHandler(e)
    /\ UNCHANGED <<topic, max_attempts, response, number, validation, notRetryVars>>

\* the loop is exhausted
ReturnFailure ==
    /\ pc = "loop"
    /\ attempt >= max_attempts
    /\ result' = Sentinel
    /\ pc' = "returned"
    /\ UNCHANGED <<calls, output, retryVars, notRetryVars>>

CommonInit ==
    /\ running = "robust_number_generation"
    /\ pc = "loop"
    /\ calls = <<>>
    /\ output = <<>>
    /\ result = <<>>

TextIdle == text = <<>>

PersonIdle ==
    /\ message = <<>>
    /\ function_arguments = <<>>
    /\ person = <<>>

RenderIdle ==
    /\ templates = <<>>
    /\ step = 0
    /\ detailed_response = <<>>
    /\ concise_response = <<>>

QaIdle ==
    /\ initial_question = <<>>
    /\ num_follow_ups = 0
    /\ iteration = 0
    /\ current_question = <<>>
    /\ qa_chain = <<>>

StoryIdle ==
    /\ genre = <<>>
    /\ story = <<>>

AnalyzeIdle ==
    /\ theme = <<>>
    /\ tone = <<>>

IterIdle ==
    /\ steps = <<>>
    /\ step_index = 0

ChainsIdle == StoryIdle /\ AnalyzeIdle /\ IterIdle

\* InMemoryHistory(): messages defaults to a new empty list
InMemoryHistory == [messages |-> <<>>]

\* store = {}
EmptyStore == [s \in {} |-> InMemoryHistory]

SessionIdle ==
    /\ store = EmptyStore
    /\ session_id = ""
    /\ looked_up = {}
    /\ turn = 0
    /\ executions = 0
    /\ conversation_defined = FALSE

VenvIdle ==
    /\ uname_s = ""
    /\ uname_m = ""
    /\ PYTHON_VERSION = ""
    /\ VERSION = ""
    /\ installed = <<>>
    /\ pyproject = FALSE
    /\ tarball = <<>>
    /\ extracted = <<>>
    /\ venv = FALSE
    /\ commands = <<>>
    /\ runs = 0
    /\ exit_status = 0

RetryIdle ==
    /\ topic = <<>>
    /\ max_attempts = 0
    /\ attempt = 0
    /\ response = <<>>
    /\ number = None
    /\ validation = <<>>

Init ==
    /\ CommonInit
    /\ RetryInit
    /\ TextIdle
    /\ PersonIdle
    /\ RenderIdle
    /\ QaIdle
    /\ ChainsIdle
    /\ SessionIdle
    /\ VenvIdle

Next ==
    \/ Generate
    \/ \E r \in GenerationResponses : GenerateReturns(r)
    \/ \E e \in RemoteErrors : GenerateRaises(e)
    \/ \E v \in ValidationResponses : ValidateReturns(v)
    \/ \E e \in RemoteErrors : ValidateRaises(e)
    \/ ReturnFailure

Spec == Init /\ [][Next]_vars

\* every remote call ends: it returns a response or raises
FairSpec == Spec /\ WF_vars(Next)

----------------------------------------------------------------------------
(* Claims about robust_number_generation *)

CallsOf(kind) == {k \in 1..Len(calls) : calls[k].prompt = kind}

IsFourDigits(s) == Len(s) = 4 /\ \A i \in 1..Len(s) : s[i] \in Digit

\* the call was answered, and the answer begins with "yes" in any case
Accepted(c) ==
    /\ c.prompt = "validate"
    /\ c.status = "ok"
    /\ Len(c.content) >= 3
    /\ LowerChar(c.content[1]) = "y"
    /\ LowerChar(c.content[2]) = "e"
    /\ LowerChar(c.content[3]) = "s"

C1_Bounded ==
    /\ attempt <= max_attempts
    /\ Cardinality(CallsOf("generate")) <= max_attempts
    /\ Cardinality(CallsOf("validate")) <= max_attempts

\* C1: whatever the remote model answers or raises, the function returns, after
\* at most max_attempts iterations, at most max_attempts generation calls and at
\* most max_attempts validation calls.
C1_Terminates == []C1_Bounded /\ <>(pc = "returned")

C1_Witness ==
    /\ pc = "returned"
    /\ max_attempts = DefaultMaxAttempts
    /\ Cardinality(CallsOf("generate")) = max_attempts
    /\ Cardinality(CallsOf("validate")) = max_attempts

\* C2: the returned value is a string of exactly four digits or the failure
\* sentinel, and no exception reaches the caller.
C2_ReturnsNumberOrSentinel ==
    /\ pc # "raised"
    /\ pc = "returned" => (IsFourDigits(result) \/ result = Sentinel)

C2_Witness ==
    /\ pc = "returned"
    /\ IsFourDigits(result)
    /\ \E k \in 1..Len(calls) : calls[k].status = "raised"

\* C4: the sentinel is returned exactly when no attempt produced a validated
\* number, and only after all max_attempts attempts were made.
C4_SentinelIffExhausted ==
    pc = "returned" =>
        /\ (result = Sentinel) <=> ~ \E k \in 1..Len(calls) : Accepted(calls[k])
        /\ result = Sentinel =>
              /\ attempt = max_attempts
              /\ {calls[k].attempt : k \in CallsOf("generate")} = 0..(max_attempts - 1)

C4_Witness ==
    /\ pc = "returned"
    /\ result = Sentinel
    /\ max_attempts = DefaultMaxAttempts
    /\ CallsOf("validate") # {}

\* the outstanding call ends in a failure of the attempt: it raises, or it is
\* the generation call and returns a text without a number
FailureOf ==
    CASE pc = "generate" /\ calls'[Len(calls)].status = "raised" ->
            Some(calls'[Len(calls)].content)
      [] pc = "generate" /\ calls'[Len(calls)].status = "ok"
                         /\ extract_number(calls'[Len(calls)].content) = None ->
            Some(ExtractErrorMessage(calls'[Len(calls)].content))
      [] pc = "validate" /\ calls'[Len(calls)].status = "raised" ->
            Some(calls'[Len(calls)].content)
      [] OTHER -> None

C5_Step ==
    /\ FailureOf # None =>
          /\ output' = Append(output,
                 <<"Attempt ", ToString(attempt + 1), " failed: ">> \o FailureOf[1])
          /\ attempt' = attempt + 1
          /\ pc' = "loop"
    /\ (pc = "loop" /\ attempt < max_attempts) =>
          /\ pc' = "generate"
          /\ calls'[Len(calls')].attempt = attempt

\* C5: a failed attempt i (a call raises, or no number is extracted) is caught,
\* prints exactly one line with the count i+1 and the reason, and the loop goes
\* on with attempt i+1 while attempts are left.
C5_FailureIsLoggedAndLoopContinues == [][C5_Step]_vars

C5_Witness ==
    /\ Len(output) = 3
    /\ \A i \in 1..3 : output[i][1] = "Attempt " /\ output[i][2] = ToString(i)
                       /\ output[i][3] = " failed: "
    /\ \E k \in CallsOf("validate") : calls[k].status = "raised"
    /\ \E k \in CallsOf("generate") : calls[k].status = "raised"
    /\ \E k \in CallsOf("generate") :
           calls[k].status = "ok" /\ extract_number(calls[k].content) = None

\* C8: a validation call is issued only after the generation call of the same
\* attempt returned a text in which extract_number found a number; an attempt
\* whose extraction fails issues no validation call.
C8_GenerateExtractValidate ==
    /\ \A k \in CallsOf("validate") :
          /\ k > 1
          /\ calls[k - 1].prompt = "generate"
          /\ calls[k - 1].attempt = calls[k].attempt
          /\ calls[k - 1].status = "ok"
          /\ extract_number(calls[k - 1].content) # None
    /\ \A k \in CallsOf("generate") :
          (calls[k].status = "ok" /\ extract_number(calls[k].content) = None)
              => (k = Len(calls) \/ calls[k + 1].attempt > calls[k].attempt)

C8_Witness ==
    /\ \E k \in CallsOf("validate") : calls[k].status = "ok"
    /\ \E k \in CallsOf("generate") :
          /\ calls[k].status = "ok"
          /\ extract_number(calls[k].content) = None
          /\ k < Len(calls)

\* C9: a returned number was extracted from the generation response of the
\* final attempt, and the validation call of that attempt asked about exactly
\* that number and the topic and was answered with a text beginning with "yes".
C9_ReturnedNumberIsValidated ==
    (pc = "returned" /\ result # Sentinel) =>
        /\ Len(calls) >= 2
        /\ LET g == calls[Len(calls) - 1]
               v == calls[Len(calls)]
           IN  /\ g.prompt = "generate" /\ g.status = "ok"
               /\ g.attempt = attempt /\ v.attempt = attempt
               /\ extract_number(g.content) = Some(result)
               /\ v.request = Format(validate_prompt, [number |-> result, topic |-> topic])
               /\ Accepted(v)

C9_Witness ==
    /\ pc = "returned"
    /\ result = <<"2", "0", "2", "5">>
    /\ attempt = 2
    /\ calls[Len(calls)].content = <<"Y", "E", "S">>

\* the calls that ended an attempt in failure: a call that raised, a generation
\* response without a number, a validation response that does not accept
FailedCalls ==
    {k \in 1..Len(calls) :
        \/ calls[k].status = "raised"
        \/ /\ calls[k].prompt = "generate" /\ calls[k].status = "ok"
           /\ MatchPositions(calls[k].content) = {}
        \/ /\ calls[k].prompt = "validate" /\ calls[k].status = "ok"
           /\ ~ Accepted(calls[k])}

\* C19: every failure, of whatever class, consumes exactly one attempt, and
\* every attempt sends the same generation request for the unchanged topic,
\* whatever happened in the attempts before it.
C19_UniformAttempts ==
    LET failed == FailedCalls
        generations == CallsOf("generate")
    IN  /\ attempt = Cardinality(failed)
        /\ \A k \in generations :
              /\ calls[k].request =
                     <<"Generate a 4-digit number related to the topic: ">> \o topic
                         \o <<". Respond with ONLY the number, no additional text.">>
              /\ calls[k].attempt = Cardinality({j \in generations : j < k})
              /\ calls[k].attempt = Cardinality({j \in failed : j < k})

C19_Witness ==
    /\ attempt = 3
    /\ \E k \in FailedCalls : calls[k].prompt = "generate" /\ calls[k].status = "raised"
    /\ \E k \in FailedCalls : calls[k].prompt = "generate" /\ calls[k].status = "ok"
    /\ \E k \in FailedCalls : calls[k].prompt = "validate" /\ calls[k].status = "ok"

\* C20: the function returns at the first accepted validation: that call is the
\* last call issued, its attempt printed no line, no earlier validation was
\* accepted, and the number returned is the one it accepted.
C20_ReturnsAtFirstValidated ==
    \A k \in 1..Len(calls) :
        Accepted(calls[k]) =>
            /\ k = Len(calls)
            /\ pc = "returned"
            /\ result = number[1]
            /\ extract_number(calls[k - 1].content) = Some(result)
            /\ Len(output) = calls[k].attempt
            /\ \A j \in 1..(k - 1) : ~ Accepted(calls[j])

C20_Witness ==
    /\ pc = "returned"
    /\ result # Sentinel
    /\ attempt = 1
    /\ max_attempts = DefaultMaxAttempts
    /\ Len(output) = 1
    /\ Accepted(calls[Len(calls)])

\* the text begins with the letters y, e, s in either case
BeginsWithYes(s) ==
    /\ Len(s) >= 3
    /\ s[1] \in {"y", "Y"}
    /\ s[2] \in {"e", "E"}
    /\ s[3] \in {"s", "S"}

\* C21: a validation response is accepted exactly when its first three
\* characters are y, e, s in either case.  A response that begins with them
\* ends the function with the number, whatever follows them; any other
\* response, one with a space before "Yes" included, prints the 'was not
\* validated' line of its attempt and the attempt is used up.
C21_AcceptedIffBeginsWithYes ==
    \A k \in CallsOf("validate") :
        calls[k].status = "ok" =>
            IF BeginsWithYes(calls[k].content)
            THEN /\ k = Len(calls)
                 /\ pc = "returned"
                 /\ result = number[1]
                 /\ Len(output) = calls[k].attempt
            ELSE /\ attempt > calls[k].attempt
                 /\ Len(output) > calls[k].attempt
                 /\ output[calls[k].attempt + 1] =
                        <<"Attempt ", ToString(calls[k].attempt + 1), ": Number ">>
                            \o extract_number(calls[k - 1].content)[1]
                            \o <<" was not validated. Reason: ">>
                            \o calls[k].content

C21_Witness ==
    /\ pc = "returned"
    /\ Len(calls) = 6
    /\ calls[2].content = <<" ", "Y", "e", "s">>
    /\ calls[4].content = <<"N", "o", ".">>
    /\ calls[6].content = <<"Y", "E", "S">>
    /\ result = <<"1", "9", "5", "4">>
    /\ Len(output) = 2

----------------------------------------------------------------------------
(* extract_number(text), called on its own *)

ExtractAlphabet == {"1", "2", "a", "_", " "}

ExampleTexts ==
    { <<"T", "h", "e", " ", "a", "n", "s", "w", "e", "r", " ", "i", "s", " ",
        "1", "9", "5", "4", ".">>,
      <<"n", "o", " ", "d", "i", "g", "i", "t", "s", " ", "h", "e", "r", "e">>,
      <<"x", "1", "9", "5", "4", " ", "2", "0", "2", "5">>,
      <<"1", "9", "5", "4", " ", "2", "0", "2", "5">>,
      <<"1", "2", "3", "4", "5", " ", "1", "9", "5", "4", ",", "2", "0", "2", "5">> }

Texts == UNION {[1..n -> ExtractAlphabet] : n \in 0..MaxLen} \cup ExampleTexts

ExtractInit ==
    /\ running = "extract_number"
    /\ pc = "extract"
    /\ calls = <<>>
    /\ output = <<>>
    /\ result = <<>>
    /\ text \in Texts

ExtractNumber ==
    /\ pc = "extract"
    /\ result' = extract_number(text)
    /\ pc' = "returned"
    /\ UNCHANGED <<calls, output, textVars, notTextVars>>

InitExtract ==
    /\ ExtractInit
    /\ RetryIdle
    /\ PersonIdle
    /\ RenderIdle
    /\ QaIdle
    /\ ChainsIdle
    /\ SessionIdle
    /\ VenvIdle

NextExtract == ExtractNumber

SpecExtract == InitExtract /\ [][NextExtract]_vars

\* four consecutive digits at p that no further digit touches
IsolatedByDigits(s, p) ==
    /\ p >= 1 /\ p + 3 <= Len(s)
    /\ \A i \in p..(p + 3) : s[i] \in Digit
    /\ (p > 1 => s[p - 1] \notin Digit)
    /\ (p + 3 < Len(s) => s[p + 4] \notin Digit)

\* four consecutive digits at p that no digit, letter or underscore touches
IsolatedByWords(s, p) ==
    /\ IsolatedByDigits(s, p)
    /\ (p > 1 => s[p - 1] \notin (Lowercase \cup Uppercase \cup {"_"}))
    /\ (p + 3 < Len(s) => s[p + 4] \notin (Lowercase \cup Uppercase \cup {"_"}))

\* C3 as stated: None without a 4-digit sequence that no further digit touches,
\* otherwise the leftmost such sequence.
C3_Original ==
    pc = "returned" =>
        LET P == {p \in 1..Len(text) : IsolatedByDigits(text, p)}
        IN  IF P = {} THEN result = None
            ELSE \E p \in P : /\ \A q \in P : p <= q
                              /\ result = Some(SubSeq(text, p, p + 3))

\* C3, amended: None without a 4-digit sequence standing between word
\* boundaries (no digit, letter or underscore directly before or after it),
\* otherwise the leftmost such sequence.
C3_FirstWordBoundedNumber ==
    pc = "returned" =>
        LET P == {p \in 1..Len(text) : IsolatedByWords(text, p)}
        IN  IF P = {} THEN result = None
            ELSE \E p \in P : /\ \A q \in P : p <= q
                              /\ result = Some(SubSeq(text, p, p + 3))

C3_Witness ==
    /\ pc = "returned"
    /\ text = <<"x", "1", "9", "5", "4", " ", "2", "0", "2", "5">>
    /\ result = Some(<<"2", "0", "2", "5">>)

----------------------------------------------------------------------------
(* Structured output: the tool-call arguments parsed into a Person *)

DigitSeq == <<"0", "1", "2", "3", "4", "5", "6", "7", "8", "9">>

DigitVal(c) == (CHOOSE i \in 1..Len(DigitSeq) : DigitSeq[i] = c) - 1

AllDigits(s) == \A i \in 1..Len(s) : s[i] \in Digit

RECURSIVE ToInt(_)
ToInt(s) == IF s = <<>> THEN 0
            ELSE 10 * ToInt(SubSeq(s, 1, Len(s) - 1)) + DigitVal(s[Len(s)])

Pad2(n) == <<DigitSeq[((n \div 10) % 10) + 1], DigitSeq[(n % 10) + 1]>>

Pad4(n) == Pad2(n \div 100) \o Pad2(n % 100)

IsLeap(y) == (y % 4 = 0 /\ y % 100 # 0) \/ y % 400 = 0

DaysIn(y, m) ==
    IF m = 2 THEN (IF IsLeap(y) THEN 29 ELSE 28)
    ELSE IF m \in {4, 6, 9, 11} THEN 30 ELSE 31

\* YYYY-MM-DD at the start of s, naming a day of the calendar
IsDate(s) ==
    /\ Len(s) >= 10
    /\ AllDigits(SubSeq(s, 1, 4)) /\ s[5] = "-"
    /\ AllDigits(SubSeq(s, 6, 7)) /\ s[8] = "-"
    /\ AllDigits(SubSeq(s, 9, 10))
    /\ ToInt(SubSeq(s, 1, 4)) >= 1
    /\ ToInt(SubSeq(s, 6, 7)) \in 1..12
    /\ ToInt(SubSeq(s, 9, 10)) \in 1..DaysIn(ToInt(SubSeq(s, 1, 4)), ToInt(SubSeq(s, 6, 7)))

\* THH:MM:SS (or a space for the T) after the date
IsTime(s) ==
    /\ Len(s) = 19
    /\ s[11] \in {"T", " "}
    /\ AllDigits(SubSeq(s, 12, 13)) /\ s[14] = ":"
    /\ AllDigits(SubSeq(s, 15, 16)) /\ s[17] = ":"
    /\ AllDigits(SubSeq(s, 18, 19))
    /\ ToInt(SubSeq(s, 12, 13)) \in 0..23
    /\ ToInt(SubSeq(s, 15, 16)) \in 0..59
    /\ ToInt(SubSeq(s, 18, 19)) \in 0..59

\* the strings the datetime field accepts: a date, or a date and a time
IsDatetimeString(s) == IsDate(s) /\ (Len(s) = 10 \/ IsTime(s))

\* the day and the month read in each other's place
ParseDatetimeDayFirst(s) ==
    [year   |-> ToInt(SubSeq(s, 1, 4)),
     month  |-> ToInt(SubSeq(s, 9, 10)),
     day    |-> ToInt(SubSeq(s, 6, 7)),
     hour   |-> IF Len(s) = 10 THEN 0 ELSE ToInt(SubSeq(s, 12, 13)),
     minute |-> IF Len(s) = 10 THEN 0 ELSE ToInt(SubSeq(s, 15, 16)),
     second |-> IF Len(s) = 10 THEN 0 ELSE ToInt(SubSeq(s, 18, 19))]

\* the datetime a string is validated into; a date alone is midnight of that day
ParseDatetime(s) ==
    [year   |-> ToInt(SubSeq(s, 1, 4)),
     month  |-> ToInt(SubSeq(s, 6, 7)),
     day    |-> ToInt(SubSeq(s, 9, 10)),
     hour   |-> IF Len(s) = 10 THEN 0 ELSE ToInt(SubSeq(s, 12, 13)),
     minute |-> IF Len(s) = 10 THEN 0 ELSE ToInt(SubSeq(s, 15, 16)),
     second |-> IF Len(s) = 10 THEN 0 ELSE ToInt(SubSeq(s, 18, 19))]

\* str(datetime), as an f-string shows it
DatetimeStr(d) ==
    Pad4(d.year) \o <<"-">> \o Pad2(d.month) \o <<"-">> \o Pad2(d.day) \o <<" ">>
        \o Pad2(d.hour) \o <<":">> \o Pad2(d.minute) \o <<":">> \o Pad2(d.second)

\* a JSON value: a string or null
Str(chars) == [type |-> "string", chars |-> chars]
Null == [type |-> "null", chars |-> <<>>]

Member(k, v) == [key |-> k, value |-> v]

RECURSIVE json_loads(_)
\* json.loads of an object: a dict of its members, a repeated key keeping the last value
json_loads(members) ==
    IF members = <<>>
    THEN <<>>
    ELSE LET rest == json_loads(SubSeq(members, 1, Len(members) - 1))
             m    == members[Len(members)]
         IN  [k \in DOMAIN rest \cup {m.key} |-> IF k = m.key THEN m.value ELSE rest[k]]

PersonFields == {"name", "date_of_birth", "occupation"}

\* Person(**arguments) validates: the three fields are required, name and
\* occupation are strings, date_of_birth is a datetime; other keys are ignored
PersonValid(args) ==
    /\ PersonFields \subseteq DOMAIN args
    /\ args["name"].type = "string"
    /\ args["occupation"].type = "string"
    /\ args["date_of_birth"].type = "string"
    /\ IsDatetimeString(args["date_of_birth"].chars)

Person(args) ==
    [name          |-> args["name"].chars,
     date_of_birth |-> ParseDatetime(args["date_of_birth"].chars),
     occupation    |-> args["occupation"].chars]

PersonNames == { <<"Harry Potter">>, <<"Hermione Granger">>, <<>> }

Occupations == { <<"Wizard">>, <<"Auror">> }

DateStrings ==
    { <<"1", "9", "8", "0", "-", "0", "7", "-", "3", "1">>,
      <<"1", "9", "7", "9", "-", "0", "9", "-", "1", "9">>,
      <<"2", "0", "0", "0", "-", "0", "2", "-", "2", "9">>,
      <<"1", "9", "8", "0", "-", "0", "2", "-", "3", "0">>,
      <<"3", "1", "/", "0", "7", "/", "1", "9", "8", "0">>,
      <<"1", "9", "8", "0", "-", "0", "7", "-", "3", "1", "T",
        "1", "2", ":", "3", "0", ":", "0", "0">>,
      <<"1", "9", "8", "0", "-", "0", "7", "-", "3", "1", " ",
        "0", "0", ":", "0", "0", ":", "0", "0">> }

\* the argument strings of a tool call: the three fields, one of them possibly
\* missing or null, possibly with a further key; or a string that is not JSON
WellFormedArguments ==
    { <<Member("name", Str(n)), Member("date_of_birth", Str(d)), Member("occupation", Str(o))>> :
          n \in PersonNames, d \in DateStrings, o \in Occupations }

OtherArguments ==
    { <<Member("name", Str(<<"Harry Potter">>)), Member("occupation", Str(<<"Wizard">>))>>,
      <<Member("name", Null),
        Member("date_of_birth", Str(<<"1", "9", "8", "0", "-", "0", "7", "-", "3", "1">>)),
        Member("occupation", Str(<<"Wizard">>))>>,
      <<Member("occupation", Str(<<"Wizard">>)),
        Member("age", Str(<<"4", "4">>)),
        Member("date_of_birth", Str(<<"1", "9", "8", "0", "-", "0", "7", "-", "3", "1">>)),
        Member("name", Str(<<"Harry Potter">>)),
        Member("occupation", Str(<<"Auror">>))>> }

ToolCall(ok, members) == [function |-> [name |-> "get_person_info",
                                        arguments |-> [json |-> ok, members |-> members]]]

ToolCalls ==
    { ToolCall(TRUE, a) : a \in WellFormedArguments \cup OtherArguments }
        \cup { ToolCall(FALSE, <<>>) }

\* choices[0].message: the tool_calls key is missing, null, or a list
Messages ==
    { [tool_calls |-> [kind |-> "missing", items |-> <<>>]],
      [tool_calls |-> [kind |-> "null", items |-> <<>>]],
      [tool_calls |-> [kind |-> "list", items |-> <<>>]] }
        \cup { [tool_calls |-> [kind |-> "list", items |-> <<t>>]] : t \in ToolCalls }
        \cup { [tool_calls |-> [kind |-> "list", items |-> <<t, ToolCall(FALSE, <<>>)>>]] :
                   t \in { ToolCall(TRUE, a) : a \in OtherArguments } }

\* message.get("tool_calls", []): falsy when missing, null or empty
tool_calls == message.tool_calls.items

\* the two cells that extract a Person: the one with the tools request and a
\* test of tool_calls, the one with the functions request and no test
PersonCells == {"structured_output", "function_calling"}

\* a JSON number
Num(chars) == [type |-> "number", chars |-> chars]

\* the keyword arguments get_person_info gives to Person
get_person_info_arguments ==
    json_loads(<< Member("name", Str(<<>>)),
                  Member("age", Num(<<"0">>)),
                  Member("occupation", Str(<<>>)) >>)

PersonInit ==
    /\ running \in PersonCells
    /\ pc = "response"
    /\ calls = <<>>
    /\ output = <<>>
    /\ result = <<>>
    /\ message \in Messages
    /\ function_arguments = <<>>
    /\ person = <<>>

\* if tool_calls: function_arguments = json.loads(tool_calls[0]["function"]["arguments"])
LoadArguments ==
    /\ pc = "response"
    /\ tool_calls # <<>>
    /\ IF tool_calls[1].function.arguments.json
       THEN /\ function_arguments' = json_loads(tool_calls[1].function.arguments.members)
            /\ pc' = "loaded"
       ELSE /\ pc' = "raised"
            /\ UNCHANGED function_arguments
    /\ UNCHANGED <<calls, output, result, message, person, notPersonVars>>

\* person = Person(**function_arguments)
CreatePerson ==
    /\ pc = "loaded"
    /\ IF PersonValid(function_arguments)
       THEN /\ person' = Some(Person(function_arguments))
            /\ pc' = "created"
       ELSE /\ pc' = "raised"
            /\ UNCHANGED person
    /\ UNCHANGED <<calls, output, result, message, function_arguments, notPersonVars>>

\* the three print statements
PrintPerson ==
    /\ pc = "created"
    /\ output' = output \o << <<"Name: ">> \o person[1].name,
                              <<"DoB: ">> \o DatetimeStr(person[1].date_of_birth),
                              <<"Occupation: ">> \o person[1].occupation >>
    /\ pc' = "done"
    /\ UNCHANGED <<calls, result, personVars, notPersonVars>>

\* message.tool_calls[0] where tool_calls is None or empty: TypeError or
\* IndexError, the cell ends with the error
FirstToolCallRaises ==
    /\ running = "function_calling"
    /\ pc = "response"
    /\ tool_calls = <<>>
    /\ pc' = "raised"
    /\ UNCHANGED <<calls, output, result, personVars, notPersonVars>>

\* get_person_info() is called on the kernel where the cell has defined it
GetPersonInfo ==
    /\ running \in PersonCells
    /\ pc \in {"done", "raised"}
    /\ running' = "get_person_info"
    /\ IF PersonValid(get_person_info_arguments)
       THEN /\ result' = Some(Person(get_person_info_arguments))
            /\ pc' = "returned"
       ELSE /\ pc' = "raised"
            /\ UNCHANGED result
    /\ UNCHANGED <<calls, output, personVars, retryVars, textVars, renderVars, qaVars,
                   storyVars, analyzeVars, iterVars, sessionVars, venvVars>>

\* else: print("No tool calls found in the response")
PrintNoToolCalls ==
    /\ running = "structured_output"
    /\ pc = "response"
    /\ tool_calls = <<>>
    /\ output' = Append(output, <<"No tool calls found in the response">>)
    /\ pc' = "done"
    /\ UNCHANGED <<calls, result, personVars, notPersonVars>>

InitPerson ==
    /\ PersonInit
    /\ RetryIdle
    /\ TextIdle
    /\ RenderIdle
    /\ QaIdle
    /\ ChainsIdle
    /\ SessionIdle
    /\ VenvIdle

NextPerson ==
    \/ LoadArguments
    \/ CreatePerson
    \/ PrintPerson
    \/ PrintNoToolCalls
    \/ FirstToolCallRaises
    \/ GetPersonInfo

SpecPerson == InitPerson /\ [][NextPerson]_vars

\* the first tool call carries a well-formed argument string with the three fields
FirstArguments == tool_calls[1].function.arguments.members

WellFormedCall ==
    /\ tool_calls # <<>>
    /\ tool_calls[1].function.arguments.json
    /\ FirstArguments \in WellFormedArguments

\* C6 as stated: the three values read back from the Person are the three
\* values of the argument string, unchanged.
C6_Original ==
    (pc = "done" /\ WellFormedCall) =>
        output = << <<"Name: ">> \o FirstArguments[1].value.chars,
                    <<"DoB: ">> \o FirstArguments[2].value.chars,
                    <<"Occupation: ">> \o FirstArguments[3].value.chars >>

\* C6, amended: name and occupation read back unchanged; date_of_birth reads
\* back as a datetime of the same calendar day, a date without a time as
\* midnight, so that "1980-07-31" is shown as "1980-07-31 00:00:00".
C6_NameOccupationKeptDateBecomesDatetime ==
    (pc = "done" /\ WellFormedCall) =>
        LET d == FirstArguments[2].value.chars
        IN  /\ Len(output) = 3
            /\ person[1].name = FirstArguments[1].value.chars
            /\ person[1].occupation = FirstArguments[3].value.chars
            /\ output[1] = <<"Name: ">> \o FirstArguments[1].value.chars
            /\ output[3] = <<"Occupation: ">> \o FirstArguments[3].value.chars
            /\ Pad4(person[1].date_of_birth.year) \o <<"-">>
                  \o Pad2(person[1].date_of_birth.month) \o <<"-">>
                  \o Pad2(person[1].date_of_birth.day) = SubSeq(d, 1, 10)
            /\ output[2] = <<"DoB: ">> \o SubSeq(d, 1, 10) \o <<" ">>
                  \o (IF Len(d) = 10
                      THEN <<"0", "0", ":", "0", "0", ":", "0", "0">>
                      ELSE SubSeq(d, 12, 19))

C6_Witness ==
    /\ pc = "done"
    /\ WellFormedCall
    /\ FirstArguments[1].value.chars = <<"Harry Potter">>
    /\ FirstArguments[2].value.chars = <<"1", "9", "8", "0", "-", "0", "7", "-", "3", "1">>
    /\ FirstArguments[3].value.chars = <<"Wizard">>
    /\ output[2] = <<"DoB: ", "1", "9", "8", "0", "-", "0", "7", "-", "3", "1", " ",
                     "0", "0", ":", "0", "0", ":", "0", "0">>

----------------------------------------------------------------------------
(* Notebook 05: the detailed and the concise prompt, rendered in two cells *)

detailed_prompt ==
    << Lit("Please provide a comprehensive explanation of "),
       Var("topic"),
       Lit(". Include its definition, \n    historical context, key components, practical applications, and any relevant examples. \n    Also, discuss any controversies or debates surrounding the topic, and mention potential \n    future developments or trends.") >>

concise_prompt ==
    << Lit("Briefly explain "), Var("topic"), Lit(" and its main importance.") >>

analysis_prompt ==
    << Lit("Compare the following two responses on artificial intelligence:\n\nDetailed response:\n"),
       Var("detailed_response"),
       Lit("\n\nConcise response:\n"),
       Var("concise_response"),
       Lit("\n\nAnalyze the differences in terms of:\n1. Information coverage\n2. Clarity and focus\n3. Potential use cases for each type of response\n\nThen, suggest strategies for balancing detail and conciseness in prompts.") >>

\* the remote calls of the two cells, in order: the template rendered, and
\* what is done with the response
RenderSteps ==
    << [prompt |-> "detailed_prompt", then |-> "print"],
       [prompt |-> "concise_prompt",  then |-> "print"],
       [prompt |-> "detailed_prompt", then |-> "detailed_response"],
       [prompt |-> "concise_prompt",  then |-> "concise_response"],
       [prompt |-> "analysis_prompt", then |-> "print"] >>

\* the second cell starts at the third call and defines analysis_prompt first
AnalysisStep == 3

RenderTopics == { <<"artificial intelligence">>, <<"quantum computing">>, <<>> }

RenderResponses == { <<"AI is a long story.">>, <<"AI is short.">> }

\* the keyword arguments of .format(...) at a step
FormatInputs(n) ==
    IF RenderSteps[n].prompt = "analysis_prompt"
    THEN [detailed_response |-> detailed_response, concise_response |-> concise_response]
    ELSE [topic |-> topic]

\* the templates the notebook has defined when the call of step n is made
TemplatesAt(n) ==
    IF n = AnalysisStep
    THEN [k \in DOMAIN templates \cup {"analysis_prompt"} |->
              IF k = "analysis_prompt" THEN analysis_prompt ELSE templates[k]]
    ELSE templates

RenderCall(n, inputs, request) ==
    [prompt |-> RenderSteps[n].prompt, inputs |-> inputs, request |-> request,
     attempt |-> n, status |-> "pending", content |-> <<>>]

RenderInit ==
    /\ running = "prompt_length"
    /\ pc = "ready"
    /\ calls = <<>>
    /\ output = <<>>
    /\ result = <<>>
    /\ templates = [k \in {"detailed_prompt", "concise_prompt"} |->
                        IF k = "detailed_prompt" THEN detailed_prompt ELSE concise_prompt]
    /\ step = 1
    /\ detailed_response = <<>>
    /\ concise_response = <<>>

\* a template that keeps the values substituted into it
InvokeRenderedInPlace ==
    /\ pc = "ready"
    /\ step <= Len(RenderSteps)
    /\ LET name    == RenderSteps[step].prompt
           request == Format(TemplatesAt(step)[name], FormatInputs(step))
       IN  /\ calls' = Append(calls, RenderCall(step, FormatInputs(step), request))
           /\ templates' = [TemplatesAt(step) EXCEPT
                               ![name] = [i \in 1..Len(request) |-> Lit(request[i])]]
    /\ pc' = "invoke"
    /\ UNCHANGED <<output, result, step, detailed_response, concise_response, notRenderVars>>

\* llm.invoke(<template>.format(...)): the template is rendered and the call issued
InvokeRendered ==
    /\ pc = "ready"
    /\ step <= Len(RenderSteps)
    /\ LET name    == RenderSteps[step].prompt
           request == Format(TemplatesAt(step)[name], FormatInputs(step))
       IN  calls' = Append(calls, RenderCall(step, FormatInputs(step), request))
    /\ templates' = TemplatesAt(step)
    /\ pc' = "invoke"
    /\ UNCHANGED <<output, result, step, detailed_response, concise_response, notRenderVars>>

\* the call returns r: .content is printed or bound
InvokeReturns(r) ==
    /\ pc = "invoke"
    /\ calls' = Complete(calls, "ok", r)
    /\ output' = IF RenderSteps[step].then = "print" THEN Append(output, r) ELSE output
    /\ detailed_response' =
           IF RenderSteps[step].then = "detailed_response" THEN r ELSE detailed_response
    /\ concise_response' =
           IF RenderSteps[step].then = "concise_response" THEN r ELSE concise_response
    /\ step' = step + 1
    /\ pc' = IF step = Len(RenderSteps) THEN "done" ELSE "ready"
    /\ UNCHANGED <<result, templates, notRenderVars>>

\* the call raises: the cell is aborted
InvokeRaises(e) ==
    /\ pc = "invoke"
    /\ calls' = Complete(calls, "raised", e)
    /\ pc' = "raised"
    /\ UNCHANGED <<output, result, renderVars, notRenderVars>>

InitRender ==
    /\ RenderInit
    /\ topic \in RenderTopics
    /\ max_attempts = 0
    /\ attempt = 0
    /\ response = <<>>
    /\ number = None
    /\ validation = <<>>
    /\ TextIdle
    /\ PersonIdle
    /\ QaIdle
    /\ ChainsIdle
    /\ SessionIdle
    /\ VenvIdle

NextRender ==
    \/ InvokeRendered
    \/ \E r \in RenderResponses : InvokeReturns(r)
    \/ \E e \in RemoteErrors : InvokeRaises(e)

SpecRender == InitRender /\ [][NextRender]_vars

C7_Step ==
    /\ \A k \in DOMAIN templates : k \in DOMAIN templates' /\ templates'[k] = templates[k]
    /\ topic' = topic
    /\ \A i, j \in 1..Len(calls') :
          (calls'[i].prompt = calls'[j].prompt /\ calls'[i].inputs = calls'[j].inputs)
              => calls'[i].request = calls'[j].request

----------------------------------------------------------------------------
(* dynamic_qa(initial_question, num_follow_ups=3) *)

DefaultFollowUps == 3

answer_prompt ==
    << Lit("Answer the following question concisely:\n"), Var("question") >>

follow_up_prompt ==
    << Lit("Based on the question '"),
       Var("question"),
       Lit("' and the answer '"),
       Var("answer"),
       Lit("', generate a relevant follow-up question.") >>

InitialQuestions ==
    { <<"What are the potential applications of quantum computing?">>, <<"Why?">> }

AnswerResponses == { <<"Drug discovery.">>, <<"High cost.">> }

FollowUpResponses == { <<"What are the biggest challenges?">>, <<"Why?">> }

QaInit ==
    /\ running = "dynamic_qa"
    /\ pc = "loop"
    /\ calls = <<>>
    /\ output = <<>>
    /\ result = <<>>
    /\ initial_question \in InitialQuestions
    /\ num_follow_ups \in 0..MaxFollowUps
    /\ iteration = 0
    /\ current_question = initial_question
    /\ qa_chain = <<>>

\* loop head, another iteration: the answer call is issued
Answer ==
    /\ pc = "loop"
    /\ iteration < num_follow_ups + 1
    /\ calls' = Append(calls, Call("answer",
                                   Format(answer_prompt, [question |-> current_question]),
                                   iteration))
    /\ pc' = "answer"
    /\ UNCHANGED <<output, result, qaVars, notQaVars>>

\* the follow-up asked about the first question every time
AnswerReturnsStale(a) ==
    /\ pc = "answer"
    /\ qa_chain' = Append(qa_chain, [question |-> current_question, answer |-> a])
    /\ IF iteration < num_follow_ups
       THEN /\ calls' = Append(Complete(calls, "ok", a),
                               Call("follow_up",
                                    Format(follow_up_prompt,
                                           [question |-> initial_question, answer |-> a]),
                                    iteration))
            /\ pc' = "follow_up"
            /\ UNCHANGED iteration
       ELSE /\ calls' = Complete(calls, "ok", a)
            /\ iteration' = iteration + 1
            /\ pc' = "loop"
    /\ UNCHANGED <<output, result, initial_question, num_follow_ups, current_question,
                   notQaVars>>

\* a follow-up question is asked for after the last answer as well
AnswerReturnsAlwaysFollowsUp(a) ==
    /\ pc = "answer"
    /\ qa_chain' = Append(qa_chain, [question |-> current_question, answer |-> a])
    /\ calls' = Append(Complete(calls, "ok", a),
                       Call("follow_up",
                            Format(follow_up_prompt,
                                   [question |-> current_question, answer |-> a]),
                            iteration))
    /\ pc' = "follow_up"
    /\ UNCHANGED <<output, result, initial_question, num_follow_ups, iteration,
                   current_question, notQaVars>>

\* the answer call returns a: the pair is appended, and for all but the last
\* iteration the follow-up call is issued
AnswerReturns(a) ==
    /\ pc = "answer"
    /\ qa_chain' = Append(qa_chain, [question |-> current_question, answer |-> a])
    /\ IF iteration < num_follow_ups
       THEN /\ calls' = Append(Complete(calls, "ok", a),
                               Call("follow_up",
                                    Format(follow_up_prompt,
                                           [question |-> current_question, answer |-> a]),
                                    iteration))
            /\ pc' = "follow_up"
            /\ UNCHANGED iteration
       ELSE /\ calls' = Complete(calls, "ok", a)
            /\ iteration' = iteration + 1
            /\ pc' = "loop"
    /\ UNCHANGED <<output, result, initial_question, num_follow_ups, current_question,
                   notQaVars>>

\* the follow-up call returns q: it is the question of the next iteration
FollowUpReturns(q) ==
    /\ pc = "follow_up"
    /\ calls' = Complete(calls, "ok", q)
    /\ current_question' = q
    /\ iteration' = iteration + 1
    /\ pc' = "loop"
    /\ UNCHANGED <<output, result, initial_question, num_follow_ups, qa_chain, notQaVars>>

\* a call raises: nothing catches it
QaRaises(e) ==
    /\ pc \in {"answer", "follow_up"}
    /\ calls' = Complete(calls, "raised", e)
    /\ pc' = "raised"
    /\ UNCHANGED <<output, result, qaVars, notQaVars>>

\* return qa_chain
ReturnChain ==
    /\ pc = "loop"
    /\ iteration >= num_follow_ups + 1
    /\ result' = qa_chain
    /\ pc' = "returned"
    /\ UNCHANGED <<calls, output, qaVars, notQaVars>>

InitQa ==
    /\ QaInit
    /\ RetryIdle
    /\ TextIdle
    /\ PersonIdle
    /\ RenderIdle
    /\ ChainsIdle
    /\ SessionIdle
    /\ VenvIdle

NextQa ==
    \/ Answer
    \/ \E a \in AnswerResponses : AnswerReturns(a)
    \/ \E q \in FollowUpResponses : FollowUpReturns(q)
    \/ \E e \in RemoteErrors : QaRaises(e)
    \/ ReturnChain

SpecQa == InitQa /\ [][NextQa]_vars

\* C10: when all calls succeed, dynamic_qa returns num_follow_ups + 1 entries in
\* generation order: the first asks initial_question, each answer is the
\* model's answer to the entry's question, and each later question is the
\* follow-up generated from the question and the answer of the entry before it.
C10_ChainOfQuestionsAndAnswers ==
    pc = "returned" =>
        /\ Len(result) = num_follow_ups + 1
        /\ Len(calls) = 2 * num_follow_ups + 1
        /\ result[1].question = initial_question
        /\ \A k \in 1..Len(result) :
              /\ calls[2 * k - 1].prompt = "answer"
              /\ calls[2 * k - 1].request =
                     <<"Answer the following question concisely:\n">> \o result[k].question
              /\ calls[2 * k - 1].status = "ok"
              /\ result[k].answer = calls[2 * k - 1].content
        /\ \A k \in 1..(Len(result) - 1) :
              /\ calls[2 * k].prompt = "follow_up"
              /\ calls[2 * k].request =
                     <<"Based on the question '">> \o result[k].question
                         \o <<"' and the answer '">> \o result[k].answer
                         \o <<"', generate a relevant follow-up question.">>
              /\ calls[2 * k].status = "ok"
              /\ result[k + 1].question = calls[2 * k].content

C10_Witness ==
    /\ pc = "returned"
    /\ num_follow_ups = DefaultFollowUps
    /\ Len(result) = 4
    /\ result[1].question # result[2].question
    /\ result[2].question # result[3].question
    /\ result[1].answer # result[2].answer

\* C22: dynamic_qa issues its calls alternating answer, follow-up, answer,
\* ..., beginning with an answer call; a follow-up call comes only after an
\* answer of an iteration before the last; when the function returns it has
\* issued num_follow_ups + 1 answer calls and num_follow_ups follow-up calls,
\* the last call being an answer call.
C22_AlternatingCalls ==
    /\ \A k \in 1..Len(calls) :
          /\ calls[k].prompt = (IF k % 2 = 1 THEN "answer" ELSE "follow_up")
          /\ calls[k].attempt = (k - 1) \div 2
          /\ calls[k].prompt = "follow_up" => calls[k].attempt < num_follow_ups
    /\ Cardinality(CallsOf("answer")) <= num_follow_ups + 1
    /\ Cardinality(CallsOf("follow_up")) <= num_follow_ups
    /\ pc = "returned" =>
          /\ Cardinality(CallsOf("answer")) = num_follow_ups + 1
          /\ Cardinality(CallsOf("follow_up")) = num_follow_ups
          /\ calls[Len(calls)].prompt = "answer"
          /\ \A k \in 1..Len(calls) : calls[k].status = "ok"

C22_Witness ==
    /\ pc = "returned"
    /\ num_follow_ups = 2
    /\ Len(calls) = 5
    /\ calls[4].prompt = "follow_up"
    /\ calls[5].prompt = "answer"

----------------------------------------------------------------------------
(* story_chain(genre) *)

story_prompt ==
    << Lit("Write a short "), Var("genre"), Lit(" story in 3-4 sentences.") >>

summary_prompt ==
    << Lit("Summarize the following story in one sentence:\n"), Var("story") >>

Genres == { <<"science fiction">>, <<"mystery">> }

StoryResponses == { <<"A robot woke up.">>, <<"The ship left.">> }

SummaryResponses == { <<"A robot wakes.">>, <<"A ship leaves.">> }

StoryInit ==
    /\ running = "story_chain"
    /\ pc = "entry"
    /\ calls = <<>>
    /\ output = <<>>
    /\ result = <<>>
    /\ genre \in Genres
    /\ story = <<>>

\* (story_prompt | llm).invoke({"genre": genre}): the call is issued
WriteStory ==
    /\ pc = "entry"
    /\ calls' = Append(calls, Call("story", Format(story_prompt, [genre |-> genre]), 0))
    /\ pc' = "story"
    /\ UNCHANGED <<output, result, storyVars, notStoryVars>>

\* the story call returns s: story is bound, the summary call is issued
StoryReturns(s) ==
    /\ pc = "story"
    /\ story' = s
    /\ calls' = Append(Complete(calls, "ok", s),
                       Call("summary", Format(summary_prompt, [story |-> s]), 1))
    /\ pc' = "summary"
    /\ UNCHANGED <<output, result, genre, notStoryVars>>

\* the summary call returns m: return story, summary
SummaryReturns(m) ==
    /\ pc = "summary"
    /\ calls' = Complete(calls, "ok", m)
    /\ result' = <<story, m>>
    /\ pc' = "returned"
    /\ UNCHANGED <<output, storyVars, notStoryVars>>

\* a call raises: nothing in story_chain catches it
StoryRaises(e) ==
    /\ pc \in {"story", "summary"}
    /\ calls' = Complete(calls, "raised", e)
    /\ pc' = "raised"
    /\ UNCHANGED <<output, result, storyVars, notStoryVars>>

InitStory ==
    /\ StoryInit
    /\ RetryIdle
    /\ TextIdle
    /\ PersonIdle
    /\ RenderIdle
    /\ QaIdle
    /\ AnalyzeIdle
    /\ IterIdle
    /\ SessionIdle
    /\ VenvIdle

NextStory ==
    \/ WriteStory
    \/ \E s \in StoryResponses : StoryReturns(s)
    \/ \E m \in SummaryResponses : SummaryReturns(m)
    \/ \E e \in RemoteErrors : StoryRaises(e)

SpecStory == InitStory /\ [][NextStory]_vars

----------------------------------------------------------------------------
(* analyze_text(text) *)

theme_prompt ==
    << Lit("Identify the main theme of the following text:\n"), Var("text") >>

tone_prompt ==
    << Lit("Describe the overall tone of the following text:\n"), Var("text") >>

takeaway_prompt ==
    << Lit("Given the following text with the main theme '"),
       Var("theme"),
       Lit("' and tone '"),
       Var("tone"),
       Lit("', what are the key takeaways?\n"),
       Var("text") >>

SampleTexts ==
    { <<"The rapid advancement of artificial intelligence has sparked both excitement and concern among experts.">>,
      <<"It rained.">> }

ThemeResponses == { <<"AI and society.">>, <<"Weather.">> }

ToneResponses == { <<"Cautious.">>, <<"Neutral.">> }

TakeawayResponses == { <<"Proceed with care.">>, <<"Bring an umbrella.">> }

AnalyzeInit ==
    /\ running = "analyze_text"
    /\ pc = "entry"
    /\ calls = <<>>
    /\ output = <<>>
    /\ result = <<>>
    /\ text \in SampleTexts
    /\ theme = <<>>
    /\ tone = <<>>

\* the two calls that depend on the text alone are sent together
AskThemeAndTone ==
    /\ pc = "entry"
    /\ calls' = calls \o << Call("theme", Format(theme_prompt, [text |-> text]), 0),
                            Call("tone", Format(tone_prompt, [text |-> text]), 1) >>
    /\ pc' = "theme"
    /\ UNCHANGED <<output, result, analyzeVars, notAnalyzeVars>>

\* (theme_prompt | llm).invoke({"text": text}): the call is issued
AskTheme ==
    /\ pc = "entry"
    /\ calls' = Append(calls, Call("theme", Format(theme_prompt, [text |-> text]), 0))
    /\ pc' = "theme"
    /\ UNCHANGED <<output, result, analyzeVars, notAnalyzeVars>>

\* the theme call returns t: theme is bound, the tone call is issued
ThemeReturns(t) ==
    /\ pc = "theme"
    /\ theme' = t
    /\ calls' = Append(Complete(calls, "ok", t),
                       Call("tone", Format(tone_prompt, [text |-> text]), 1))
    /\ pc' = "tone"
    /\ UNCHANGED <<output, result, tone, notAnalyzeVars>>

\* the takeaways prompt gets the tone where the theme belongs, and the
\* theme where the tone belongs
ToneReturnsSwapped(t) ==
    /\ pc = "tone"
    /\ tone' = t
    /\ calls' = Append(Complete(calls, "ok", t),
                       Call("takeaways",
                            Format(takeaway_prompt,
                                   [text |-> text, theme |-> t, tone |-> theme]),
                            2))
    /\ pc' = "takeaways"
    /\ UNCHANGED <<output, result, theme, notAnalyzeVars>>

\* the tone call returns t: tone is bound, the takeaways call is issued
ToneReturns(t) ==
    /\ pc = "tone"
    /\ tone' = t
    /\ calls' = Append(Complete(calls, "ok", t),
                       Call("takeaways",
                            Format(takeaway_prompt,
                                   [text |-> text, theme |-> theme, tone |-> t]),
                            2))
    /\ pc' = "takeaways"
    /\ UNCHANGED <<output, result, theme, notAnalyzeVars>>

\* the takeaways call returns k: the dict of the three answers is returned
TakeawaysReturns(k) ==
    /\ pc = "takeaways"
    /\ calls' = Complete(calls, "ok", k)
    /\ result' = [theme |-> theme, tone |-> tone, takeaways |-> k]
    /\ pc' = "returned"
    /\ UNCHANGED <<output, analyzeVars, notAnalyzeVars>>

\* a call raises: nothing in analyze_text catches it
AnalyzeRaises(e) ==
    /\ pc \in {"theme", "tone", "takeaways"}
    /\ calls' = Complete(calls, "raised", e)
    /\ pc' = "raised"
    /\ UNCHANGED <<output, result, analyzeVars, notAnalyzeVars>>

InitAnalyze ==
    /\ AnalyzeInit
    /\ RetryIdle
    /\ PersonIdle
    /\ RenderIdle
    /\ QaIdle
    /\ StoryIdle
    /\ IterIdle
    /\ SessionIdle
    /\ VenvIdle

NextAnalyze ==
    \/ AskTheme
    \/ \E t \in ThemeResponses : ThemeReturns(t)
    \/ \E t \in ToneResponses : ToneReturns(t)
    \/ \E k \in TakeawayResponses : TakeawaysReturns(k)
    \/ \E e \in RemoteErrors : AnalyzeRaises(e)

SpecAnalyze == InitAnalyze /\ [][NextAnalyze]_vars

----------------------------------------------------------------------------
(* iterative_analysis(text, steps) *)

analysis_steps ==
    << <<"Identify the main topics discussed.">>,
       <<"Summarize the key points for each topic.">>,
       <<"Provide a brief conclusion based on the analysis.">> >>

\* a step whose text has a replacement field of its own in braces
BraceSteps == { <<"List the topics in the form ", "{topics}", ".">> }

\* the tokens that str.format reads as a replacement field, and the field's name
StepFields == [t \in {"{topics}"} |-> "topics"]

AnalysisSteps == {analysis_steps[i] : i \in 1..Len(analysis_steps)} \cup BraceSteps

StepLists == UNION {[1..n -> AnalysisSteps] : n \in 0..MaxSteps}

LongTexts == { <<"Artificial intelligence (AI) is a branch of computer science.">>,
               <<"Short.">> }

IterResponses == { <<"Topics: AI, history.">>, <<"In conclusion, AI matters.">> }

\* the f-string puts the step into the template text, where a field in
\* braces is a placeholder like any other; {{text}} is the placeholder {text}
StepTemplate(s) ==
    << Lit("Analyze the following text. ") >>
        \o [i \in 1..Len(s) |->
                IF s[i] \in DOMAIN StepFields THEN Var(StepFields[s[i]]) ELSE Lit(s[i])]
        \o << Lit("\n\nText: "), Var("text"), Lit("\n\nAnalysis:") >>

\* the placeholders of a template
TemplateVariables(template) ==
    {template[i].var : i \in {j \in 1..Len(template) : "var" \in DOMAIN template[j]}}

\* result = text
IterInit ==
    /\ running = "iterative_analysis"
    /\ pc = "loop"
    /\ calls = <<>>
    /\ output = <<>>
    /\ text \in LongTexts
    /\ result = text
    /\ steps \in StepLists
    /\ step_index = 0

\* the next step: its prompt is rendered on the current result and sent
AnalyzeStep ==
    /\ pc = "loop"
    /\ step_index < Len(steps)
    /\ TemplateVariables(StepTemplate(steps[step_index + 1])) \subseteq {"text"}
    /\ calls' = Append(calls, Call("analysis",
                                   Format(StepTemplate(steps[step_index + 1]),
                                          [text |-> result]),
                                   step_index))
    /\ pc' = "invoke"
    /\ UNCHANGED <<output, result, iterVars, notIterVars>>

\* the next step has a placeholder that format(text=result) gives no value
\* for: format raises KeyError, no call is made
AnalyzeStepRaises ==
    /\ pc = "loop"
    /\ step_index < Len(steps)
    /\ ~ (TemplateVariables(StepTemplate(steps[step_index + 1])) \subseteq {"text"})
    /\ pc' = "raised"
    /\ UNCHANGED <<calls, output, result, iterVars, notIterVars>>

\* the call returns r: it replaces the result
AnalysisReturns(r) ==
    /\ pc = "invoke"
    /\ calls' = Complete(calls, "ok", r)
    /\ result' = r
    /\ step_index' = step_index + 1
    /\ pc' = "loop"
    /\ UNCHANGED <<output, steps, notIterVars>>

\* a failed step is skipped and the loop goes on with what it has
AnalysisRaisesSkipsStep(e) ==
    /\ pc = "invoke"
    /\ calls' = Complete(calls, "raised", e)
    /\ step_index' = step_index + 1
    /\ pc' = "loop"
    /\ UNCHANGED <<output, result, steps, notIterVars>>

\* the call raises: nothing in iterative_analysis catches it
AnalysisRaises(e) ==
    /\ pc = "invoke"
    /\ calls' = Complete(calls, "raised", e)
    /\ pc' = "raised"
    /\ UNCHANGED <<output, result, iterVars, notIterVars>>

\* the steps are used up: return result
ReturnResult ==
    /\ pc = "loop"
    /\ step_index >= Len(steps)
    /\ pc' = "returned"
    /\ UNCHANGED <<calls, output, result, iterVars, notIterVars>>

InitIterative ==
    /\ IterInit
    /\ RetryIdle
    /\ PersonIdle
    /\ RenderIdle
    /\ QaIdle
    /\ StoryIdle
    /\ AnalyzeIdle
    /\ SessionIdle
    /\ VenvIdle

NextIterative ==
    \/ AnalyzeStep
    \/ AnalyzeStepRaises
    \/ \E r \in IterResponses : AnalysisReturns(r)
    \/ \E e \in RemoteErrors : AnalysisRaises(e)
    \/ ReturnResult

SpecIterative == InitIterative /\ [][NextIterative]_vars

----------------------------------------------------------------------------
(* The functions that call the remote model, each run from its entry *)

InitChains ==
    \/ Init
    \/ InitQa
    \/ InitStory
    \/ InitAnalyze
    \/ InitIterative

NextChains ==
    \/ running = "robust_number_generation" /\ Next
    \/ running = "dynamic_qa" /\ NextQa
    \/ running = "story_chain" /\ NextStory
    \/ running = "analyze_text" /\ NextAnalyze
    \/ running = "iterative_analysis" /\ NextIterative

SpecChains == InitChains /\ [][NextChains]_vars

\* the functions that have no error handling of their own
Unguarded == {"story_chain", "analyze_text", "dynamic_qa", "iterative_analysis"}

RaisedCalls == {k \in 1..Len(calls) : calls[k].status = "raised"}

PendingCalls == {k \in 1..Len(calls) : calls[k].status = "pending"}

C11_Step ==
    (running \in Unguarded /\ pc = "raised") => UNCHANGED vars

\* C11: in story_chain, analyze_text, dynamic_qa and iterative_analysis a
\* remote call that raises ends the function with the error: the failed call
\* is the last call ever issued, it is not issued again, and the function never
\* returns a value, partial or whole.
C11_ErrorAborts ==
    /\ [](running \in Unguarded =>
             \A k \in RaisedCalls :
                 /\ k = Len(calls)
                 /\ pc = "raised"
                 /\ running # "iterative_analysis" => result = <<>>)
    /\ [][C11_Step]_vars

C11_Witness ==
    /\ running = "iterative_analysis"
    /\ Len(steps) = 3
    /\ pc = "raised"
    /\ Len(calls) = 2
    /\ calls[1].status = "ok"
    /\ calls[2].status = "raised"

C12_Step ==
    (\/ attempt' # attempt
     \/ iteration' # iteration
     \/ step_index' # step_index
     \/ pc' \in {"returned", "raised"}) => PendingCalls' = {}

\* C12: at most one remote call is outstanding at any moment, and it is the
\* latest one issued; a loop goes to its next iteration, and a function ends,
\* only when no call is outstanding.
C12_OneCallAtATime ==
    /\ [](/\ Cardinality(PendingCalls) <= 1
          /\ PendingCalls \subseteq {Len(calls)}
          /\ (PendingCalls # {}) <=>
                 (pc \in {"generate", "validate", "answer", "follow_up", "story",
                          "summary", "theme", "tone", "takeaways", "invoke"}))
    /\ [][C12_Step]_vars

C12_Witness ==
    /\ running = "analyze_text"
    /\ Len(calls) = 3
    /\ calls[1].status = "ok"
    /\ calls[2].status = "ok"
    /\ PendingCalls = {3}

----------------------------------------------------------------------------
(* Notebook 05: InMemoryHistory, store and get_by_session_id *)

SessionIds == {"foo", "bar"}

HumanMessage(c) == [role |-> "human", content |-> c]
AIMessage(c) == [role |-> "ai", content |-> c]

\* every lookup hands out a new history
StoreAfterLookupAlwaysNew(st, s) ==
    [x \in DOMAIN st \cup {s} |-> IF x = s THEN InMemoryHistory ELSE st[x]]

\* the store once get_by_session_id(s) has run: a missing key gets a new
\* empty history, a present key is left as it is
StoreAfterLookup(st, s) ==
    IF s \notin DOMAIN st
    THEN [x \in DOMAIN st \cup {s} |-> IF x = s THEN InMemoryHistory ELSE st[x]]
    ELSE st

\* the new messages are put ahead of the old ones
add_messagesAtFront(history, messages) ==
    [history EXCEPT !.messages = messages \o @]

\* self.messages.extend(messages)
add_messages(history, messages) ==
    [history EXCEPT !.messages = @ \o messages]

\* self.messages = []
clear(history) ==
    [history EXCEPT !.messages = <<>>]

\* the messages handed to add_messages
MessageLists ==
    { <<>>,
      << HumanMessage(<<"Hi">>) >>,
      << HumanMessage(<<"Hi">>), AIMessage(<<"Hello">>) >> }

StoreInit ==
    /\ running = "kernel"
    /\ pc = "idle"
    /\ calls = <<>>
    /\ output = <<>>
    /\ result = <<>>
    /\ store = EmptyStore
    /\ session_id = ""
    /\ looked_up = {}
    /\ turn = 0
    /\ executions = 0
    /\ conversation_defined = FALSE

\* get_by_session_id(s)
GetBySessionId(s) ==
    /\ store' = StoreAfterLookup(store, s)
    /\ result' = store'[s]
    /\ session_id' = s
    /\ looked_up' = looked_up \cup {s}
    /\ pc' = "get_by_session_id"
    /\ UNCHANGED <<running, calls, output, turn, executions, conversation_defined,
                   notSessionVars>>

\* get_by_session_id(s).add_messages(ms)
AddMessages(s, ms) ==
    /\ Len(StoreAfterLookup(store, s)[s].messages) + Len(ms) <= MaxMessages
    /\ store' = [StoreAfterLookup(store, s) EXCEPT ![s] = add_messages(@, ms)]
    /\ result' = <<>>
    /\ session_id' = s
    /\ looked_up' = looked_up \cup {s}
    /\ pc' = "add_messages"
    /\ UNCHANGED <<running, calls, output, turn, executions, conversation_defined,
                   notSessionVars>>

\* clear takes the key of the session out of the store
ClearRemovesKey(s) ==
    /\ store' = [x \in DOMAIN store \ {s} |-> store[x]]
    /\ result' = <<>>
    /\ session_id' = s
    /\ looked_up' = looked_up \cup {s}
    /\ pc' = "clear"
    /\ UNCHANGED <<running, calls, output, turn, executions, conversation_defined,
                   notSessionVars>>

\* get_by_session_id(s).clear()
Clear(s) ==
    /\ store' = [StoreAfterLookup(store, s) EXCEPT ![s] = clear(@)]
    /\ result' = <<>>
    /\ session_id' = s
    /\ looked_up' = looked_up \cup {s}
    /\ pc' = "clear"
    /\ UNCHANGED <<running, calls, output, turn, executions, conversation_defined,
                   notSessionVars>>

InitStore ==
    /\ StoreInit
    /\ RetryIdle
    /\ TextIdle
    /\ PersonIdle
    /\ RenderIdle
    /\ QaIdle
    /\ ChainsIdle
    /\ VenvIdle

NextStore ==
    \/ \E s \in SessionIds : GetBySessionId(s)
    \/ \E s \in SessionIds, ms \in MessageLists : AddMessages(s, ms)
    \/ \E s \in SessionIds : Clear(s)

SpecStore == InitStore /\ [][NextStore]_vars

C14_Step ==
    pc' = "get_by_session_id" =>
        /\ session_id' \in DOMAIN store => store' = store
        /\ session_id' \notin DOMAIN store =>
              /\ DOMAIN store' = DOMAIN store \cup {session_id'}
              /\ store'[session_id'].messages = <<>>
              /\ \A x \in DOMAIN store : store'[x] = store[x]
        /\ result' = store'[session_id']

\* C14: get_by_session_id(s) creates an empty history for s on the first
\* lookup and on every later lookup returns the history stored for s with the
\* messages it has accumulated, leaving the store as it was; the store holds
\* one history for each session id ever looked up and for no other.
C14_OneHistoryPerSession ==
    /\ [](DOMAIN store = looked_up)
    /\ [][C14_Step]_vars

C14_Witness ==
    /\ pc = "get_by_session_id"
    /\ session_id = "foo"
    /\ looked_up = {"foo", "bar"}
    /\ Len(result.messages) = 3
    /\ store["bar"].messages = <<>>

----------------------------------------------------------------------------
(* Notebook 05: the cells that use conversation, a                         *)
(* RunnableWithMessageHistory over get_by_session_id                       *)

\* the questions of the cell that defines conversation, session "foo"
questions ==
    << <<"Hi, I'm learning about space. Can you tell me about planets?">>,
       <<"What's the largest planet in our solar system?">>,
       <<"How does its size compare to Earth?">> >>

\* the prompts of the comparison cell, session "bar"
prompts ==
    << <<"What is the capital of France?">>,
       <<"What is its population?">>,
       <<"What is the city's most famous landmark?">> >>

ConversationResponses == { <<"Planets orbit stars.">>, <<"Jupiter.">> }

SingleResponses == { <<"Paris.">> }

\* the session id each cell passes in config
SessionOf(c) == IF c = "conversation_cell" THEN "foo" ELSE "bar"

\* the question list each cell goes through
QuestionsOf(c) == IF c = "conversation_cell" THEN questions ELSE prompts

SessionCall(kind, request, s) ==
    [prompt |-> kind, request |-> request, attempt |-> turn,
     status |-> "pending", content |-> <<>>, session |-> s, execution |-> executions]

\* the answer is recorded ahead of its question
TurnMessagesAnswerFirst(q, r) == << AIMessage(r), HumanMessage(q) >>

\* the messages the wrapper records when the chain has returned
TurnMessages(q, r) == << HumanMessage(q), AIMessage(r) >>

SessionInit ==
    /\ running = "kernel"
    /\ pc = "idle"
    /\ calls = <<>>
    /\ output = <<>>
    /\ result = <<>>
    /\ store = EmptyStore
    /\ session_id = ""
    /\ looked_up = {}
    /\ turn = 0
    /\ executions = 0
    /\ conversation_defined = FALSE

\* the cell is run on a kernel whose store a new execution empties
RunConversationCellFresh ==
    /\ pc \in {"idle", "raised"}
    /\ executions < MaxExecutions
    /\ executions' = executions + 1
    /\ running' = "conversation_cell"
    /\ conversation_defined' = TRUE
    /\ store' = EmptyStore
    /\ turn' = 0
    /\ pc' = "turn"
    /\ UNCHANGED <<calls, output, result, session_id, looked_up, notSessionVars>>

\* the cell that defines prompt, chain and conversation is run
RunConversationCell ==
    /\ pc \in {"idle", "raised"}
    /\ executions < MaxExecutions
    /\ executions' = executions + 1
    /\ running' = "conversation_cell"
    /\ conversation_defined' = TRUE
    /\ turn' = 0
    /\ pc' = "turn"
    /\ UNCHANGED <<calls, output, result, store, session_id, looked_up, notSessionVars>>

\* the comparison cell is run: print("Single-turn responses:")
RunComparisonCell ==
    /\ pc \in {"idle", "raised"}
    /\ executions < MaxExecutions
    /\ executions' = executions + 1
    /\ running' = "comparison_cell"
    /\ output' = Append(output, <<"Single-turn responses:">>)
    /\ turn' = 0
    /\ pc' = "single"
    /\ UNCHANGED <<calls, result, store, session_id, looked_up, conversation_defined,
                   notSessionVars>>

\* print(f"Q: {prompt}"); llm.invoke(prompt): the call is issued
SingleInvoke ==
    /\ pc = "single"
    /\ output' = Append(output, <<"Q: ">> \o prompts[turn + 1])
    /\ calls' = Append(calls, SessionCall("single",
                                          << HumanMessage(prompts[turn + 1]) >>, ""))
    /\ pc' = "llm"
    /\ UNCHANGED <<running, result, sessionVars, notSessionVars>>

\* the call returns r: print(f"A: {...}\n"); after the last prompt the
\* multi-turn loop starts, and fails at once where conversation is not defined
SingleReturns(r) ==
    /\ pc = "llm"
    /\ calls' = Complete(calls, "ok", r)
    /\ IF turn + 1 < Len(prompts)
       THEN /\ output' = Append(output, <<"A: ">> \o r \o <<"\n">>)
            /\ turn' = turn + 1
            /\ pc' = "single"
       ELSE /\ output' = output \o << <<"A: ">> \o r \o <<"\n">>,
                                     <<"Multi-turn responses:">> >>
            /\ turn' = 0
            /\ pc' = IF conversation_defined THEN "turn" ELSE "raised"
    /\ UNCHANGED <<running, result, store, session_id, looked_up, executions,
                   conversation_defined, notSessionVars>>

\* conversation.invoke(input={"question": q}, config=... session_id): the
\* history of the session is looked up, its messages and the question make
\* the prompt, the call is issued
ConversationInvoke ==
    /\ pc = "turn"
    /\ LET s == SessionOf(running)
           q == QuestionsOf(running)[turn + 1]
       IN  /\ store' = StoreAfterLookup(store, s)
           /\ session_id' = s
           /\ looked_up' = looked_up \cup {s}
           /\ calls' = Append(calls,
                              SessionCall("conversation",
                                          store'[s].messages \o << HumanMessage(q) >>,
                                          s))
           /\ output' = IF running = "comparison_cell"
                        THEN Append(output, <<"Q: ">> \o q)
                        ELSE output
    /\ pc' = "conversation"
    /\ UNCHANGED <<running, result, turn, executions, conversation_defined,
                   notSessionVars>>

\* the call returns r: the question and the answer are added to the history,
\* the answer is printed, the cell goes on or ends
ConversationReturns(r) ==
    /\ pc = "conversation"
    /\ calls' = Complete(calls, "ok", r)
    /\ LET s == SessionOf(running)
           q == QuestionsOf(running)[turn + 1]
       IN  store' = [store EXCEPT ![s] = add_messages(@, TurnMessages(q, r))]
    /\ output' = Append(output, IF running = "comparison_cell"
                                THEN <<"A: ">> \o r \o <<"\n">>
                                ELSE r)
    /\ IF turn + 1 < Len(QuestionsOf(running))
       THEN /\ turn' = turn + 1
            /\ pc' = "turn"
            /\ UNCHANGED running
       ELSE /\ turn' = 0
            /\ pc' = "idle"
            /\ running' = "kernel"
    /\ UNCHANGED <<result, session_id, looked_up, executions, conversation_defined,
                   notSessionVars>>

\* a call raises: the cell execution ends with the error, and the history
\* gets neither the question nor an answer
CellRaises(e) ==
    /\ pc \in {"llm", "conversation"}
    /\ calls' = Complete(calls, "raised", e)
    /\ pc' = "raised"
    /\ UNCHANGED <<running, output, result, sessionVars, notSessionVars>>

InitSession ==
    /\ SessionInit
    /\ RetryIdle
    /\ TextIdle
    /\ PersonIdle
    /\ RenderIdle
    /\ QaIdle
    /\ ChainsIdle
    /\ VenvIdle

NextSession ==
    \/ RunConversationCell
    \/ RunComparisonCell
    \/ SingleInvoke
    \/ \E r \in SingleResponses : SingleReturns(r)
    \/ ConversationInvoke
    \/ \E r \in ConversationResponses : ConversationReturns(r)
    \/ \E e \in RemoteErrors : CellRaises(e)

SpecSession == InitSession /\ [][NextSession]_vars

ConversationCalls == {k \in 1..Len(calls) : calls[k].prompt = "conversation"}

\* the question a conversation call was made with
QuestionOf(c) == IF c.session = "foo" THEN questions[c.attempt + 1] ELSE prompts[c.attempt + 1]

RECURSIVE TurnsSince(_, _, _)
\* the completed turns of session s in the log, in order, of the cell
\* executions numbered from e on
TurnsSince(log, s, e) ==
    IF log = <<>>
    THEN <<>>
    ELSE LET c == Head(log)
         IN  (IF c.prompt = "conversation" /\ c.session = s /\ c.status = "ok"
                 /\ c.execution >= e
              THEN << [role |-> "human", content |-> QuestionOf(c)],
                      [role |-> "ai", content |-> c.content] >>
              ELSE <<>>)
             \o TurnsSince(Tail(log), s, e)

Turns(log, s) == TurnsSince(log, s, 1)

\* C13: every conversation.invoke on a session id sends the questions and
\* responses of all earlier completed turns of that session, in order,
\* followed by the new question; when it has returned, the history of the
\* session is those turns followed by this question and its response.
C13_PromptIsHistoryThenQuestion ==
    /\ \A k \in ConversationCalls :
          calls[k].request =
              Turns(SubSeq(calls, 1, k - 1), calls[k].session)
                  \o << [role |-> "human", content |-> QuestionOf(calls[k])] >>
    /\ \A s \in DOMAIN store : store[s].messages = Turns(calls, s)

C13_Witness ==
    /\ Len(calls) = 3
    /\ calls[3].prompt = "conversation"
    /\ calls[3].status = "ok"
    /\ Len(calls[3].request) = 5
    /\ calls[3].request[2].content # calls[3].request[4].content
    /\ Len(store["foo"].messages) = 6

\* C15 as stated: a conversation call sends only turns made in its own cell
\* execution.
C15_Original ==
    \A k \in ConversationCalls :
        calls[k].request =
            TurnsSince(SubSeq(calls, 1, k - 1), calls[k].session, calls[k].execution)
                \o << [role |-> "human", content |-> QuestionOf(calls[k])] >>

\* the turns of session s that cell executions before execution e completed
CarriedTurns(log, s, e) ==
    Turns(SelectSeq(log, LAMBDA c : c.execution < e), s)

C15_Step ==
    executions' # executions => store' = store

\* C15: the history of a session id outlives the cell execution that wrote it:
\* starting a cell execution leaves every history as it was, and a
\* conversation call sends, ahead of everything else, the turns that earlier
\* cell executions completed on its session id.
C15_HistoryOutlivesCellExecution ==
    /\ [](\A k \in ConversationCalls :
             LET carried == CarriedTurns(calls, calls[k].session, calls[k].execution)
             IN  /\ Len(calls[k].request) > Len(carried)
                 /\ SubSeq(calls[k].request, 1, Len(carried)) = carried)
    /\ [][C15_Step]_vars

C15_Witness ==
    /\ executions = 2
    /\ running = "conversation_cell"
    /\ pc = "conversation"
    /\ turn = 0
    /\ Len(calls[Len(calls)].request) = 7
    /\ calls[Len(calls)].request[1].content = questions[1]
    /\ calls[Len(calls)].request[7].content = questions[1]

----------------------------------------------------------------------------
(* scripts/create_venv.sh *)

\* the hosts: what uname -s and uname -m print
Hosts == { <<"Linux", "x86_64">>, <<"Linux", "aarch64">>,
           <<"Darwin", "arm64">>, <<"Darwin", "x86_64">> }

\* words the user may enter at the prompt
VersionInputs == {"3.8", "3.9", "3.10", "3.11", "3.12", "", "3.13", "3.11.10"}

\* the lines entered: blanks and at most one word; the empty line, the words
\* alone and some of them with blanks around
InputLines ==
    { IF v = "" THEN <<>> ELSE <<v>> : v \in VersionInputs }
        \cup { <<" ">>, <<" ", "3.11", " ">>, <<"\t", "3.9">>, <<"3.13", " ">> }

\* read NAME: the line without its leading and trailing blanks
read(line) ==
    LET words == SelectSeq(line, LAMBDA t : t \notin {" ", "\t"})
    IN  IF words = <<>> THEN "" ELSE words[1]

\* the case statement has a pattern for 3.13 as well
FullVersionWith313 ==
    [v \in {"3.13", "3.12", "3.11", "3.10", "3.9", "3.8"} |->
        CASE v = "3.13" -> "3.13.0"
          [] v = "3.12" -> "3.12.6"
          [] v = "3.11" -> "3.11.10"
          [] v = "3.10" -> "3.10.15"
          [] v = "3.9"  -> "3.9.20"
          [] v = "3.8"  -> "3.8.20"]

\* the patterns of the case statement and the VERSION each selects
FullVersion ==
    [v \in {"3.12", "3.11", "3.10", "3.9", "3.8"} |->
        CASE v = "3.12" -> "3.12.6"
          [] v = "3.11" -> "3.11.10"
          [] v = "3.10" -> "3.10.15"
          [] v = "3.9"  -> "3.9.20"
          [] v = "3.8"  -> "3.8.20"]

\* the two distributions the script has a URL for
AppleSiliconBuild == [os |-> "darwin", arch |-> "aarch64"]
LinuxBuild == [os |-> "linux", arch |-> "x86_64"]

UnsupportedLine == <<"Error: Unsupported Python version. Please enter 3.8 to 3.12.">>

SkipLine(v) == <<"Python version ", v, " already exists. Skipping installation.">>

Command(cmd, arg, ok) == [cmd |-> cmd, arg |-> arg, ok |-> ok]

\* [[ -f "/usr/local/python${VERSION}" ]]: a directory is not a regular file
DirectoryIsFile(v) == FALSE

\* [[ -d "/usr/local/python${VERSION}" ]]
DirectoryExists(v) == v \in DOMAIN installed

\* the kernel of the host runs a binary built for its own system only
Executable(dist) ==
    /\ dist.os = (IF uname_s = "Darwin" THEN "darwin" ELSE "linux")
    /\ dist.arch = (IF uname_m = "x86_64" THEN "x86_64" ELSE "aarch64")

VenvInit ==
    /\ running = "create_venv.sh"
    /\ pc = "start"
    /\ calls = <<>>
    /\ output = <<>>
    /\ result = <<>>
    /\ \E host \in Hosts : uname_s = host[1] /\ uname_m = host[2]
    /\ PYTHON_VERSION = ""
    /\ VERSION = ""
    /\ installed = <<>>
    /\ pyproject \in BOOLEAN
    /\ tarball = None
    /\ extracted = None
    /\ venv = FALSE
    /\ commands = <<>>
    /\ runs = 0
    /\ exit_status = 0

\* the script is started, the line is read, the case statement selects VERSION
\* or prints the error and exits with status 1
ReadVersion(line) ==
    /\ pc \in {"start", "done", "exited"}
    /\ runs < MaxRuns
    /\ runs' = runs + 1
    /\ PYTHON_VERSION' = read(line)
    /\ commands' = <<>>
    /\ IF read(line) \in DOMAIN FullVersion
       THEN /\ VERSION' = FullVersion[read(line)]
            /\ output' = <<>>
            /\ exit_status' = 0
            /\ pc' = "check"
       ELSE /\ VERSION' = ""
            /\ output' = << UnsupportedLine >>
            /\ exit_status' = 1
            /\ pc' = "exited"
    /\ UNCHANGED <<calls, result, uname_s, uname_m, installed, pyproject, tarball,
                   extracted, venv, notVenvVars>>

\* if [[ -d "/usr/local/python${VERSION}" ]]: echo and skip, else install
CheckInstalled ==
    /\ pc = "check"
    /\ IF DirectoryExists(VERSION)
       THEN /\ output' = Append(output, SkipLine(VERSION))
            /\ pc' = "venv"
       ELSE /\ output' = output
            /\ pc' = "download"
    /\ UNCHANGED <<calls, result, venvVars, notVenvVars>>

\* the if / elif over uname: curl for Apple Silicon, curl for Linux whatever
\* the machine, and no command on any other host; a transfer may fail
Download(transferred) ==
    /\ pc = "download"
    /\ IF uname_s = "Darwin" /\ uname_m = "arm64"
       THEN /\ commands' = Append(commands,
                                  Command("curl", Some(AppleSiliconBuild), transferred))
            /\ tarball' = IF transferred THEN Some(AppleSiliconBuild) ELSE tarball
       ELSE IF uname_s = "Linux"
       THEN /\ commands' = Append(commands,
                                  Command("curl", Some(LinuxBuild), transferred))
            /\ tarball' = IF transferred THEN Some(LinuxBuild) ELSE tarball
       ELSE /\ transferred
            /\ UNCHANGED <<commands, tarball>>
    /\ pc' = "extract"
    /\ UNCHANGED <<calls, output, result, uname_s, uname_m, PYTHON_VERSION, VERSION,
                   installed, pyproject, extracted, venv, runs, exit_status, notVenvVars>>

\* tar -xzf python${VERSION}.tar.gz
Extract ==
    /\ pc = "extract"
    /\ commands' = Append(commands, Command("tar", None, tarball # None))
    /\ extracted' = IF tarball # None THEN tarball ELSE extracted
    /\ pc' = "move"
    /\ UNCHANGED <<calls, output, result, uname_s, uname_m, PYTHON_VERSION, VERSION,
                   installed, pyproject, tarball, venv, runs, exit_status, notVenvVars>>

\* sudo mv python /usr/local/python${VERSION}; sudo may be refused
Move(allowed) ==
    /\ pc = "move"
    /\ LET moved == allowed /\ extracted # None
       IN  /\ commands' = Append(commands, Command("sudo mv", None, moved))
           /\ installed' = IF moved
                           THEN [v \in DOMAIN installed \cup {VERSION} |->
                                    IF v = VERSION THEN extracted[1] ELSE installed[v]]
                           ELSE installed
           /\ extracted' = IF moved THEN None ELSE extracted
    /\ pc' = "remove"
    /\ UNCHANGED <<calls, output, result, uname_s, uname_m, PYTHON_VERSION, VERSION,
                   pyproject, tarball, venv, runs, exit_status, notVenvVars>>

\* rm python${VERSION}.tar.gz
RemoveTarball ==
    /\ pc = "remove"
    /\ commands' = Append(commands, Command("rm", None, tarball # None))
    /\ tarball' = None
    /\ pc' = "venv"
    /\ UNCHANGED <<calls, output, result, uname_s, uname_m, PYTHON_VERSION, VERSION,
                   installed, pyproject, extracted, venv, runs, exit_status, notVenvVars>>

\* /usr/local/python${VERSION}/bin/python3 -m venv .venv
CreateVenv ==
    /\ pc = "venv"
    /\ LET created == VERSION \in DOMAIN installed /\ Executable(installed[VERSION])
       IN  /\ commands' = Append(commands, Command("venv", None, created))
           /\ venv' = (venv \/ created)
    /\ pc' = "activate"
    /\ UNCHANGED <<calls, output, result, uname_s, uname_m, PYTHON_VERSION, VERSION,
                   installed, pyproject, tarball, extracted, runs, exit_status,
                   notVenvVars>>

\* source .venv/bin/activate; pip install -U pip; pip install -U poetry
ActivateAndInstallPoetry ==
    /\ pc = "activate"
    /\ commands' = commands \o << Command("source", None, venv),
                                  Command("pip install -U pip", None, TRUE),
                                  Command("pip install -U poetry", None, TRUE) >>
    /\ pc' = "deps"
    /\ UNCHANGED <<calls, output, result, uname_s, uname_m, PYTHON_VERSION, VERSION,
                   installed, pyproject, tarball, extracted, venv, runs, exit_status,
                   notVenvVars>>

\* the dependencies are installed whether or not a pyproject.toml is there
InstallDependenciesAlways(written) ==
    /\ pc = "deps"
    /\ commands' = Append(commands, Command("poetry install --without dl", None, TRUE))
    /\ pyproject' = (pyproject \/ written)
    /\ pc' = "done"
    /\ UNCHANGED <<calls, output, result, uname_s, uname_m, PYTHON_VERSION, VERSION,
                   installed, tarball, extracted, venv, runs, exit_status, notVenvVars>>

\* if [[ -f "pyproject.toml" ]]: poetry install --without dl, else poetry init,
\* which writes a pyproject.toml unless the user leaves the dialogue
InstallDependencies(written) ==
    /\ pc = "deps"
    /\ IF pyproject
       THEN /\ commands' = Append(commands,
                                  Command("poetry install --without dl", None, TRUE))
            /\ written
            /\ UNCHANGED pyproject
       ELSE /\ commands' = Append(commands, Command("poetry init", None, TRUE))
            /\ pyproject' = written
    /\ pc' = "done"
    /\ UNCHANGED <<calls, output, result, uname_s, uname_m, PYTHON_VERSION, VERSION,
                   installed, tarball, extracted, venv, runs, exit_status, notVenvVars>>

InitVenv ==
    /\ VenvInit
    /\ RetryIdle
    /\ TextIdle
    /\ PersonIdle
    /\ RenderIdle
    /\ QaIdle
    /\ ChainsIdle
    /\ SessionIdle

NextVenv ==
    \/ \E line \in InputLines : ReadVersion(line)
    \/ CheckInstalled
    \/ \E transferred \in BOOLEAN : Download(transferred)
    \/ Extract
    \/ \E allowed \in BOOLEAN : Move(allowed)
    \/ RemoveTarball
    \/ CreateVenv
    \/ ActivateAndInstallPoetry
    \/ \E written \in BOOLEAN : InstallDependencies(written)

SpecVenv == InitVenv /\ [][NextVenv]_vars

CommandsOf(cmd) == {k \in 1..Len(commands) : commands[k].cmd = cmd}

\* the distribution is built for the system that uname -s and uname -m report
MatchesHost(dist) ==
    /\ (uname_s = "Linux") <=> (dist.os = "linux")
    /\ (uname_s = "Darwin") <=> (dist.os = "darwin")
    /\ (uname_m = "x86_64") <=> (dist.arch = "x86_64")
    /\ (uname_m \in {"arm64", "aarch64"}) <=> (dist.arch = "aarch64")

\* C16: once the download step of a run is over, the script has downloaded a
\* distribution whose operating system and architecture are those of the host.
C16_DownloadMatchesHost ==
    pc = "extract" =>
        \E k \in CommandsOf("curl") : MatchesHost(commands[k].arg[1])

C17_Step ==
    (pc = "check" /\ VERSION \in DOMAIN installed) =>
        /\ pc' = "venv"
        /\ commands' = commands
        /\ installed' = installed
        /\ tarball' = tarball
        /\ extracted' = extracted

\* C17: when /usr/local/python<VERSION> exists for the selected version the
\* script goes from the test straight to creating the virtual environment: the
\* run has no curl, tar, sudo mv or rm, and its first command is the venv one.
C17_SkipsInstallWhenPresent ==
    /\ [][C17_Step]_vars
    /\ []((output # <<>> /\ output[1] = SkipLine(VERSION)) =>
             /\ \A k \in 1..Len(commands) :
                    commands[k].cmd \notin {"curl", "tar", "sudo mv", "rm"}
             /\ commands # <<>> => commands[1].cmd = "venv"
             /\ pc \in {"venv", "activate", "deps", "done"})

C17_Witness ==
    /\ runs = 2
    /\ pc = "done"
    /\ output = << SkipLine("3.11.10") >>
    /\ commands[1].cmd = "venv"
    /\ commands[1].ok
    /\ uname_s = "Linux"

C18_Step ==
    (pc = "deps" /\ pc' = "done") =>
        commands'[Len(commands')].cmd =
            (IF pyproject THEN "poetry install --without dl" ELSE "poetry init")

C23_Step == running = "analyze_text" => text' = text

\* C23: analyze_text issues at most three calls, in the order theme, tone,
\* takeaways; the theme and tone requests hold the input text alone, the
\* takeaways request holds the responses of the first two calls as theme and
\* tone and the same input text; the function returns, after the three calls,
\* a dictionary of exactly the keys theme, tone, takeaways with the three
\* responses.
C23_ThemeToneTakeaways ==
    /\ [](running = "analyze_text" =>
            /\ Len(calls) <= 3
            /\ \A k \in 1..Len(calls) :
                  calls[k].prompt = <<"theme", "tone", "takeaways">>[k]
            /\ Len(calls) >= 1 =>
                  calls[1].request =
                      <<"Identify the main theme of the following text:\n">> \o text
            /\ Len(calls) >= 2 =>
                  calls[2].request =
                      <<"Describe the overall tone of the following text:\n">> \o text
            /\ Len(calls) >= 3 =>
                  calls[3].request =
                      <<"Given the following text with the main theme '">>
                          \o calls[1].content \o <<"' and tone '">> \o calls[2].content
                          \o <<"', what are the key takeaways?\n">> \o text
            /\ pc = "returned" =>
                  /\ Len(calls) = 3
                  /\ DOMAIN result = {"theme", "tone", "takeaways"}
                  /\ result.theme = calls[1].content
                  /\ result.tone = calls[2].content
                  /\ result.takeaways = calls[3].content)
    /\ [][C23_Step]_vars

C23_Witness ==
    /\ running = "analyze_text"
    /\ pc = "returned"
    /\ result.theme = <<"AI and society.">>
    /\ result.tone = <<"Neutral.">>
    /\ result.takeaways = <<"Proceed with care.">>
    /\ text = <<"It rained.">>

\* the request rendered from a step's instruction and a text
StepRequest(instruction, input) ==
    <<"Analyze the following text. ">> \o instruction
        \o <<"\n\nText: ">> \o input \o <<"\n\nAnalysis:">>

\* C24: iterative_analysis folds the steps in list order: the request of step
\* k holds the instruction of step k and the response of step k - 1 (the
\* input text for the first step); unless a remote call raises, the function
\* returns, after len(steps) calls, the response of the last step, and the
\* input text where the list of steps is empty.
C24_FoldsSteps ==
    /\ Len(calls) <= Len(steps)
    /\ \A k \in 1..Len(calls) :
          calls[k].request =
              StepRequest(steps[k], IF k = 1 THEN text ELSE calls[k - 1].content)
    /\ pc = "raised" => calls # <<>> /\ calls[Len(calls)].status = "raised"
    /\ pc = "returned" =>
          /\ Len(calls) = Len(steps)
          /\ result = (IF steps = <<>> THEN text ELSE calls[Len(calls)].content)

\* the messages the store holds for session s, none where s was never looked up
MessagesOf(st, s) == IF s \in DOMAIN st THEN st[s].messages ELSE <<>>

IsPrefix(a, b) == Len(a) <= Len(b) /\ SubSeq(b, 1, Len(a)) = a

C25_Step ==
    /\ \A s \in SessionIds, ms \in MessageLists :
          AddMessages(s, ms) => MessagesOf(store', s) = MessagesOf(store, s) \o ms
    /\ \A s \in SessionIds :
          \/ pc' = "clear" /\ session_id' = s
          \/ IsPrefix(MessagesOf(store, s), MessagesOf(store', s))

\* C25: add_messages(ms) puts the messages of ms, in their order, after the
\* messages the history already holds and leaves those as they were: until
\* clear is called on it, every earlier state of a history is a prefix of
\* every later one.
C25_AppendOnly == [][C25_Step]_vars

C25_Witness ==
    /\ pc = "add_messages"
    /\ session_id = "foo"
    /\ store["foo"].messages =
           << HumanMessage(<<"Hi">>), HumanMessage(<<"Hi">>), AIMessage(<<"Hello">>) >>

----------------------------------------------------------------------------
(* Notebook 05: the store API and the conversation cells on one kernel *)

\* a cell is run that asks get_by_session_id for the history of s
LookupCell(s) ==
    /\ pc \in {"idle", "raised"}
    /\ executions < MaxExecutions
    /\ executions' = executions + 1
    /\ store' = StoreAfterLookup(store, s)
    /\ result' = store'[s]
    /\ session_id' = s
    /\ looked_up' = looked_up \cup {s}
    /\ running' = "kernel"
    /\ pc' = "idle"
    /\ UNCHANGED <<calls, output, turn, conversation_defined, notSessionVars>>

\* a cell is run that adds ms to the history of s
AddMessagesCell(s, ms) ==
    /\ pc \in {"idle", "raised"}
    /\ executions < MaxExecutions
    /\ executions' = executions + 1
    /\ store' = [StoreAfterLookup(store, s) EXCEPT ![s] = add_messages(@, ms)]
    /\ result' = <<>>
    /\ session_id' = s
    /\ looked_up' = looked_up \cup {s}
    /\ running' = "kernel"
    /\ pc' = "idle"
    /\ UNCHANGED <<calls, output, turn, conversation_defined, notSessionVars>>

\* the cell clears the history of every session
ClearCellEverySession(s) ==
    /\ pc \in {"idle", "raised"}
    /\ executions < MaxExecutions
    /\ executions' = executions + 1
    /\ store' = [x \in DOMAIN store \cup {s} |-> InMemoryHistory]
    /\ result' = <<>>
    /\ session_id' = s
    /\ looked_up' = looked_up \cup {s}
    /\ running' = "kernel"
    /\ pc' = "idle"
    /\ UNCHANGED <<calls, output, turn, conversation_defined, notSessionVars>>

\* a cell is run that clears the history of s
ClearCell(s) ==
    /\ pc \in {"idle", "raised"}
    /\ executions < MaxExecutions
    /\ executions' = executions + 1
    /\ store' = [StoreAfterLookup(store, s) EXCEPT ![s] = clear(@)]
    /\ result' = <<>>
    /\ session_id' = s
    /\ looked_up' = looked_up \cup {s}
    /\ running' = "kernel"
    /\ pc' = "idle"
    /\ UNCHANGED <<calls, output, turn, conversation_defined, notSessionVars>>

InitKernel == InitSession

NextKernel ==
    \/ \E s \in SessionIds : LookupCell(s)
    \/ \E s \in SessionIds, ms \in MessageLists : AddMessagesCell(s, ms)
    \/ \E s \in SessionIds : ClearCell(s)
    \/ NextSession

SpecKernel == InitKernel /\ [][NextKernel]_vars

C26_Step ==
    /\ \A t \in SessionIds \ {session_id'} :
          /\ t \in DOMAIN store' <=> t \in DOMAIN store
          /\ t \in DOMAIN store => store'[t] = store[t]
    /\ pc' = "conversation" /\ pc = "turn" =>
          LET c == calls'[Len(calls')]
          IN  /\ c.session = session_id'
              /\ c.request = MessagesOf(store, c.session)
                                 \o << HumanMessage(QuestionOf(c)) >>

\* C26: a lookup, an add_messages, a clear or a conversation turn on one
\* session id leaves the history of every other session id as it was, and
\* the prompt of a conversation turn is made of the history of its own
\* session id and the new question, of no message of another session.
C26_SessionsIsolated == [][C26_Step]_vars

C26_Witness ==
    /\ pc = "conversation"
    /\ session_id = "foo"
    /\ turn = 0
    /\ Len(MessagesOf(store, "bar")) = 2
    /\ Len(calls[Len(calls)].request) = 1

C27_Step ==
    /\ DOMAIN store \subseteq DOMAIN store'
    /\ pc' = "clear" =>
          /\ session_id' \in DOMAIN store'
          /\ store'[session_id'].messages = <<>>
          /\ \A t \in DOMAIN store \ {session_id'} : store'[t] = store[t]
    /\ pc' # "clear" =>
          \A t \in DOMAIN store : Len(store'[t].messages) >= Len(store[t].messages)
    /\ \A s \in SessionIds, ms \in MessageLists :
          AddMessages(s, ms) =>
              Len(MessagesOf(store', s)) = Len(MessagesOf(store, s)) + Len(ms)

\* C27: over get_by_session_id, add_messages and clear the set of session ids
\* in the store never shrinks; clear leaves the key of its session in the
\* store with an empty message list and every other history as it was; no
\* other operation takes a message away, and add_messages lengthens the
\* history by the number of messages it is given.
C27_NoEviction == [][C27_Step]_vars

C27_Witness ==
    /\ pc = "clear"
    /\ session_id = "foo"
    /\ DOMAIN store = {"foo", "bar"}
    /\ store["foo"].messages = <<>>
    /\ Len(store["bar"].messages) = MaxMessages

----------------------------------------------------------------------------
(* The cells that extract a Person, and get_person_info *)

\* the three lines printed for the arguments of the first tool call
PersonLines(args) ==
    << <<"Name: ">> \o Person(args).name,
       <<"DoB: ">> \o DatetimeStr(Person(args).date_of_birth),
       <<"Occupation: ">> \o Person(args).occupation >>

\* C28: where choices[0].message carries no tool call (tool_calls missing,
\* null or empty) the cell prints "No tool calls found in the response",
\* builds no Person and raises no error; where it carries one or more, the
\* first alone is parsed, and the cell prints the three lines Name, DoB and
\* Occupation or, where parsing or validation fails, none of them.
C28_NoToolCallIsReported ==
    running \in PersonCells =>
        /\ tool_calls = <<>> =>
              /\ pc \in {"response", "done"}
              /\ person = <<>>
              /\ pc = "done" => output = << <<"No tool calls found in the response">> >>
        /\ tool_calls # <<>> =>
              /\ pc = "done" =>
                    /\ tool_calls[1].function.arguments.json
                    /\ output = PersonLines(json_loads(tool_calls[1].function.arguments.members))
              /\ pc # "done" => output = <<>>

\* C29: get_person_info() returns a Person that has the fields name,
\* date_of_birth and occupation.
C29_ReturnsPerson ==
    running = "get_person_info" =>
        /\ pc = "returned"
        /\ result # <<>>
        /\ DOMAIN result[1] = PersonFields

----------------------------------------------------------------------------
(* scripts/create_venv.sh: version selection *)

SupportedVersions == {"3.8", "3.9", "3.10", "3.11", "3.12"}

\* what a run that ends at the unsupported version leaves behind
RejectedStep ==
    /\ pc' = "exited"
    /\ exit_status' = 1
    /\ output' = << UnsupportedLine >>
    /\ commands' = <<>>
    /\ UNCHANGED <<installed, tarball, extracted, venv>>

C30_Step ==
    \A line \in InputLines :
        ReadVersion(line) =>
            IF read(line) \in SupportedVersions
            THEN pc' = "check" /\ exit_status' = 0 /\ output' = <<>>
            ELSE RejectedStep

====
